---------------------------- MODULE Spec2Model ----------------------------
(***************************************************************************)
(* A model of plugdata's object bridge (GUIObject / ObjectBase, createGui, *)
(* z-order mutation) and of its render cache and invalidation layer        *)
(* (NVGSurface::InvalidationListener, NVGImage, NVGFramebuffer).           *)
(*                                                                         *)
(* The module holds several specifications over one set of variables; each *)
(* specification drives one subsystem and leaves the others untouched:     *)
(*   SpecEdit    value synchronisation of one GUIObject (UI thread,        *)
(*               interpreter context, deferred UI callbacks)               *)
(*   SpecValue   setValueOriginal / setValueScaled over drawn ranges       *)
(*   SpecInval   InvalidationListener::invalidate and the dirty rectangle  *)
(*   SpecImage, SpecFramebuffer   the needsUpdate life cycle of a cache    *)
(*   SpecCreate  GUIObject::createGui classification                       *)
(*   SpecZOrder  changePos / moveToFront / moveToBack on the display list  *)
(***************************************************************************)
EXTENDS Integers, Sequences, FiniteSets, TLC

VARIABLES
    \* ---- GUIObject (src/Source/Objects/GUIObject.cpp) ----
    alive,       \* the GUIObject exists (SafePointer is non-null)
    edited,      \* GUIObject::edited
    value,       \* GUIObject::value, the cached scalar (a float, kept exact)
    min,         \* GUIObject::min
    max,         \* GUIObject::max
    pdValue,     \* the interpreter-side value, what getValue() reads
    pdQueue,     \* work enqueued for the interpreter's execution context
    uiQueue,     \* callbacks posted with MessageManager::callAsync
    guiLast,     \* history: the last GUIObject step and its argument
    \* ---- NVGSurface / InvalidationListener (src/unnamed/part_002) ----
    invalidArea, \* NVGSurface::invalidArea, the accumulated dirty rectangle
    visible,     \* Component::isVisible() of each origin component
    calls,       \* history: the invalidate(rect) calls since the last frame
    \* ---- NVGImage / NVGFramebuffer (src/unnamed/part_002) ----
    img,         \* one NVGImage: nvg, subImages, totalWidth, totalHeight, isDirty
    fbo,         \* one NVGFramebuffer: nvg, fb, fbWidth, fbHeight, fbDirty
    textures,    \* backend: the image ids created and not deleted
    cacheLast,   \* history: the last cache step, its size, and what was created
    \* ---- GUIObject::createGui (src/Source/Objects/GUIObject.cpp) ----
    obj,         \* the interpreter object behind ptr: class name and inspected fields
    gui,         \* the widget createGui returned for it, NoWidget before the call
    \* ---- the canvas display list (src/Source/Objects/GUIObject.cpp) ----
    gl_list,     \* t_canvas::gl_list, the head of the display list (0 is nullptr)
    g_next,      \* t_gobj::g_next of every object
    infoParent,  \* whether the first object is the reserved info-parent canvas
    zLast,       \* history: the last z-order call, its object, index and the list before
    \* ---- the interpreter's lock around the display list ----
    sysLock,     \* who holds the interpreter's lock: "none", "ui" or "pd"
    zMove,       \* where the UI thread is inside changePos
    pdSaw,       \* history: what the last interpreter step found
    \* ---- the message listeners of pd::Instance ----
    live,        \* the GUIObjects constructed and not yet destroyed
    wptr,        \* ObjectBase::ptr of every GUIObject, NoPtr before construction
    listeners,   \* the registered <<pointer, listener>> pairs
    \* ---- which thread touches what (GUIObject's deferred work) ----
    pdPc,        \* where the interpreter context is inside updateValue's lambda
    lastAccess,  \* history: the reads and writes of the last step
    \* ---- NVGCachedPath and the backend calls of the render caches ----
    paths,       \* nvg and cacheId of every NVGCachedPath in allCachedPaths
    gpuLast,     \* history: the last cache operation, its result and backend calls
    \* ---- what InvalidationListener returns ----
    renderThroughImage, \* NVGSurface::renderThroughImage
    passEvents,         \* InvalidationListener::passEvents of every origin component
    invalRet,           \* history: the last listener call and what it returned
    \* ---- CanvasViewport: zooming ----
    scaleChanged,       \* CanvasViewport::scaleChanged
    lastScaleFactor,    \* CanvasViewport::lastScaleFactor
    isZooming,          \* Canvas::isZooming
    resizeTimer,        \* whether Timers::ResizeTimer is running
    zoomLast,           \* history: the last viewport step and scaleChanged before it
    \* ---- the render caches as objects, their registries and the backend ----
    images,             \* the NVGImage objects: alive or not, and their members
    framebuffers,       \* the NVGFramebuffer objects
    cachedPaths,        \* the NVGCachedPath objects
    allImages,          \* NVGImage::allImages
    allFramebuffers,    \* NVGFramebuffer::allFramebuffers
    allCachedPaths,     \* NVGCachedPath::allCachedPaths
    gpuImages,          \* backend: the <<context, id>> of every image created and not deleted
    gpuFbs,             \* backend: the framebuffers created and not deleted
    gpuPaths,           \* backend: the <<context, id>> of every saved path not deleted
    ownLast,            \* history: the last operation and its backend calls
    \* ---- GUIObject: the edition gestures ----
    editionCalls,       \* history: the startEdition / stopEdition calls, in call order
    mouseSent,          \* history: the payloads of the "gui mouse" messages, in enqueue order
    \* ---- ObjectBase::getType ----
    typePtr,            \* ObjectBase::ptr: what the wrapped pointer refers to
    typeLast,           \* history: the last getType call, its result and its lock operations
    \* ---- frames that re-create the render caches on demand ----
    imgCause,           \* history: the image was not created yet, or was invalidated since
    fbCause,            \* history: the same for the framebuffer
    frameLast,          \* history: the last frame, whether it re-created and why
    \* ---- PlugDataWindow::closeAllPatches ----
    tabs,               \* the open canvases in tab order: their patch and whether it is dirty
    currentTab,         \* tabbar.getCurrentTabIndex(), 0 when there is no tab
    closePhase,         \* where the chain of closeAllPatches is
    askedCnv,           \* the canvas captured by the pending dialog or save
    closedLog,          \* history: the patches closed, whether dirty, and on what answer
    closeLast           \* history: the last step and the tabs before it

guiVars == <<alive, edited, value, min, max, pdValue, pdQueue, uiQueue, guiLast>>
invalVars == <<invalidArea, visible, calls>>

cacheVars == <<img, fbo, textures, cacheLast>>

createVars == <<obj, gui>>

zVars == <<gl_list, g_next, infoParent, zLast>>

lockVars == <<sysLock, zMove, pdSaw>>
regVars == <<live, wptr, listeners>>
threadVars == <<pdPc, lastAccess>>
pathVars == <<paths, gpuLast>>
retVars == <<renderThroughImage, passEvents, invalRet>>
zoomVars == <<scaleChanged, lastScaleFactor, isZooming, resizeTimer, zoomLast>>
editLogVars == <<editionCalls, mouseSent>>
typeVars == <<typePtr, typeLast>>
frameVars == <<imgCause, fbCause, frameLast>>
closeVars == <<tabs, currentTab, closePhase, askedCnv, closedLog, closeLast>>
ownVars == <<images, framebuffers, cachedPaths, allImages, allFramebuffers, allCachedPaths, gpuImages, gpuFbs, gpuPaths, ownLast>>

vars == <<guiVars, invalVars, cacheVars, createVars, zVars, lockVars, regVars, threadVars, pathVars, retVars, zoomVars, ownVars, editLogVars, typeVars, frameVars, closeVars>>

----------------------------------------------------------------------------
(* Exact arithmetic for the C++ floats: a number is <<numerator,           *)
(* denominator>> in lowest terms with a positive denominator.  Rounding of *)
(* IEEE single precision is not modelled.                                  *)

RECURSIVE Gcd(_, _)
Gcd(a, b) == IF b = 0 THEN a ELSE Gcd(b, a % b)

Abs(n) == IF n < 0 THEN -n ELSE n

Rat(n, d) ==
    LET s == IF d < 0 THEN -1 ELSE 1
        g == Gcd(Abs(n), Abs(d))
    IN  <<(s * n) \div g, (s * d) \div g>>

Int2Rat(n) == <<n, 1>>
Zero == Int2Rat(0)
One  == Int2Rat(1)

RAdd(a, b) == Rat(a[1] * b[2] + b[1] * a[2], a[2] * b[2])
RSub(a, b) == Rat(a[1] * b[2] - b[1] * a[2], a[2] * b[2])
RMul(a, b) == Rat(a[1] * b[1], a[2] * b[2])
\* float division: a zero divisor yields inf or NaN, one token here
NaN == <<0, 0>>
RDiv(a, b) == IF b[1] = 0 \/ a = NaN \/ b = NaN THEN NaN ELSE Rat(a[1] * b[2], a[2] * b[1])
RLess(a, b) == a[1] * b[2] < b[1] * a[2]
\* std::min(a, b) is (b < a) ? b : a; std::max(a, b) is (a < b) ? b : a
StdMin(a, b) == IF RLess(b, a) THEN b ELSE a
StdMax(a, b) == IF RLess(a, b) THEN b ELSE a

----------------------------------------------------------------------------
(* juce::Rectangle<int>, as far as the invalidation bridge uses it         *)

Rect(x, y, w, h) == [x |-> x, y |-> y, w |-> w, h |-> h]
EmptyRect == Rect(0, 0, 0, 0)
IsEmpty(r) == r.w <= 0 \/ r.h <= 0
Min2(a, b) == IF a < b THEN a ELSE b
Max2(a, b) == IF a < b THEN b ELSE a

GetIntersection(r, o) ==
    LET nx == Max2(r.x, o.x)
        ny == Max2(r.y, o.y)
        nw == Min2(r.x + r.w, o.x + o.w) - nx
        nh == Min2(r.y + r.h, o.y + o.h) - ny
    IN  IF nw >= 0 /\ nh >= 0 THEN Rect(nx, ny, nw, nh) ELSE EmptyRect

GetUnion(r, o) ==
    IF IsEmpty(o) THEN r
    ELSE IF IsEmpty(r) THEN o
    ELSE LET nx == Min2(r.x, o.x)
             ny == Min2(r.y, o.y)
         IN  Rect(nx, ny, Max2(r.x + r.w, o.x + o.w) - nx,
                          Max2(r.y + r.h, o.y + o.h) - ny)

Expanded(r, d) == Rect(r.x - d, r.y - d, r.w + 2 * d, r.h + 2 * d)

\* floor and ceiling of n / d for d > 0
FloorDiv(n, d) == n \div d
CeilDiv(n, d) == -((-n) \div d)

----------------------------------------------------------------------------
(* NVGSurface::InvalidationListener                                        *)

MaxCalls == 2

\* The origin components: local bounds (0, 0, w, h), and the transform from
\* the component's space to the surface's: scale num/den (the canvas zoom),
\* then translation by (ox, oy).
Components == {"canvas", "object"}

CompGeom(c) ==
    IF c = "canvas"
    THEN [w |-> 6, h |-> 4, num |-> 3, den |-> 2, ox |-> -1, oy |-> 2]
    ELSE [w |-> 3, h |-> 3, num |-> 1, den |-> 1, ox |-> 4, oy |-> 1]

\* Component::getLocalBounds
GetLocalBounds(c) == Rect(0, 0, CompGeom(c).w, CompGeom(c).h)

\* surface.getLocalArea(origin, r.toFloat()).getSmallestIntegerContainer()
GetLocalAreaContainer(c, r) ==
    LET g  == CompGeom(c)
        x1 == FloorDiv(r.x * g.num, g.den) + g.ox
        y1 == FloorDiv(r.y * g.num, g.den) + g.oy
        x2 == CeilDiv((r.x + r.w) * g.num, g.den) + g.ox
        y2 == CeilDiv((r.y + r.h) * g.num, g.den) + g.oy
    IN  Rect(x1, y1, x2 - x1, y2 - y1)

\* a bug: the requested rectangle is not clipped to the origin component
InvalidatedBoundsUnclipped(c, rect) ==
    IF visible[c] /\ ~IsEmpty(rect)
    THEN GetLocalAreaContainer(c, Expanded(rect, 2))
    ELSE EmptyRect

\* InvalidationListener::invalidate: the rectangle handed to
\* surface.invalidateArea, EmptyRect when the call invalidates nothing
InvalidatedBounds(c, rect) ==
    LET b == GetIntersection(rect, GetLocalBounds(c))
    IN  IF visible[c] /\ ~IsEmpty(b)
        THEN GetLocalAreaContainer(c, Expanded(b, 2))
        ELSE EmptyRect

\* NVGSurface::invalidateArea: the area is unioned into the accumulator
InvalidateArea(area) == GetUnion(invalidArea, area)

Invalidate(c, rect) ==
    /\ Cardinality(calls \cup {<<c, rect>>}) <= MaxCalls
    /\ invalidArea' = InvalidateArea(InvalidatedBounds(c, rect))
    /\ calls' = calls \cup {<<c, rect>>}
    /\ UNCHANGED visible

\* NVGSurface::render: a frame is composited and the dirty rectangle cleared
RenderFrame ==
    /\ calls # {}
    /\ invalidArea' = EmptyRect
    /\ calls' = {}
    /\ UNCHANGED visible

InvalInit ==
    /\ invalidArea = EmptyRect
    /\ visible \in [Components -> BOOLEAN]
    /\ calls = {}

InvalRest ==
    /\ invalidArea = EmptyRect
    /\ visible = [c \in Components |-> TRUE]
    /\ calls = {}

\* the rectangles passed to invalidate(): inside, overlapping an edge,
\* outside and empty
InputRects ==
    { Rect(1, 1, 2, 1), Rect(-2, -1, 4, 3), Rect(2, 3, 5, 4), Rect(0, 0, 1, 1),
      Rect(7, 7, 2, 2), Rect(1, 2, 0, 3), Rect(5, 0, 1, 4) }

----------------------------------------------------------------------------
(* NVGSurface::getInvalidArea                                              *)

\* inline static int cnvMargin = 32
cnvMargin == 32

\* Rectangle::translated
Translated(r, dx, dy) == Rect(r.x + dx, r.y + dy, r.w, r.h)

\* Rectangle::contains(Rectangle)
ContainsRect(r, o) ==
    /\ r.x <= o.x /\ r.y <= o.y
    /\ r.x + r.w >= o.x + o.w /\ r.y + r.h >= o.y + o.h

\* a different getter: the dirty rectangle grown by the margin on every side
GetInvalidAreaExpanded == Expanded(invalidArea, cnvMargin)

\* NVGSurface::getInvalidArea
GetInvalidArea == Translated(invalidArea, -cnvMargin, -cnvMargin)

----------------------------------------------------------------------------
(* InvalidationListener: the value returned to the caller                  *)

\* a bug: the listener's own passEvents flag is ignored
ReturnsRepaintImageOnly(c) == renderThroughImage

\* return surface.renderThroughImage || passEvents;
ReturnsRepaint(c) == renderThroughImage \/ passEvents[c]

\* InvalidationListener::invalidate with its return value
InvalidateRet(c, rect) ==
    /\ Invalidate(c, rect)
    /\ invalRet' = [op |-> "invalidate", c |-> c, rect |-> rect, ret |-> ReturnsRepaint(c)]
    /\ UNCHANGED <<renderThroughImage, passEvents>>

\* InvalidationListener::invalidateAll: the local bounds of the origin
\* component go to invalidateArea as they are
InvalidateAll(c) ==
    /\ Cardinality(calls \cup {<<c, GetLocalBounds(c)>>}) <= MaxCalls
    /\ invalidArea' = IF visible[c] THEN InvalidateArea(GetLocalBounds(c)) ELSE invalidArea
    /\ calls' = calls \cup {<<c, GetLocalBounds(c)>>}
    /\ invalRet' = [op |-> "invalidateAll", c |-> c, rect |-> GetLocalBounds(c),
                    ret |-> ReturnsRepaint(c)]
    /\ UNCHANGED <<visible, renderThroughImage, passEvents>>

\* NVGSurface::setRenderThroughImage
SetRenderThroughImage(b) ==
    /\ renderThroughImage # b
    /\ renderThroughImage' = b
    /\ invalRet' = [invalRet EXCEPT !.op = "setRenderThroughImage"]
    /\ UNCHANGED <<invalVars, passEvents>>

\* NVGSurface after construction, and listeners made with the default
\* passRepaintEvents
RetRest ==
    /\ renderThroughImage = FALSE
    /\ passEvents = [c \in Components |-> FALSE]
    /\ invalRet = [op |-> "none", c |-> "canvas", rect |-> EmptyRect, ret |-> FALSE]

\* listeners made with either value of passRepaintEvents
RetInit ==
    /\ renderThroughImage = FALSE
    /\ passEvents \in [Components -> BOOLEAN]
    /\ invalRet = [op |-> "none", c |-> "canvas", rect |-> EmptyRect, ret |-> FALSE]

----------------------------------------------------------------------------
(* NVGImage and NVGFramebuffer                                             *)

\* the backend's texture size limit (nvgMaxTextureSize, 8192 by default),
\* scaled down
TextureSizeLimit == 2
MaxTextures == 5

Contexts == {"ctxA", "ctxB"}
NullCtx == "nullptr"

\* image and framebuffer sizes: below, at and above the texture size limit
Sizes == {1, TextureSizeLimit, TextureSizeLimit + 1}
Formats == {"ARGB", "SingleChannel", "RGB"}

\* what an uninitialised int (fbWidth, fbHeight) may hold
UninitInts == {0, TextureSizeLimit}

\* nvgCreateImageARGB / nvgCreateImageAlpha hand out an unused id: the i-th
\* smallest id not in use
FreeIds == (1..(2 * MaxTextures)) \ textures
FreshId(i) == CHOOSE id \in FreeIds : Cardinality({ j \in FreeIds : j < id }) = i - 1

\* the tile origins of loadJUCEImage's while loops: 0, L, 2L, ... below total
TileOrigins(total) == { k * TextureSizeLimit : k \in 0..(total \div TextureSizeLimit) } \cap 0..(total - 1)

\* the tiles in creation order: x outer, y inner
TileBounds(w, h) ==
    LET xs == TileOrigins(w)
        ys == TileOrigins(h)
        ny == Cardinality(ys)
        n  == Cardinality(xs) * ny
    IN  [ i \in 1..n |->
            LET x == ((i - 1) \div ny) * TextureSizeLimit
                y == ((i - 1) % ny) * TextureSizeLimit
            IN  Rect(x, y, Min2(TextureSizeLimit, w - x), Min2(TextureSizeLimit, h - y)) ]

\* image.isARGB() / image.isSingleChannel(): any other format leaves imageId 0
CreatedId(fmt, id) == IF fmt \in {"ARGB", "SingleChannel"} THEN id ELSE 0

\* NVGImage::needsUpdate
ImageNeedsUpdate(w, h) ==
    img.subImages = <<>> \/ w # img.totalWidth \/ h # img.totalHeight \/ img.isDirty

\* NVGImage::isValid
ImageIsValid == img.subImages # <<>>

\* NVGImage::loadJUCEImage
LoadJUCEImage(ctx, w, h, fmt) ==
    LET small == w <= TextureSizeLimit /\ h <= TextureSizeLimit
        reuse == small /\ img.subImages # <<>> /\ img.subImages[1].bounds = Rect(0, 0, w, h)
        tiles == IF small THEN <<Rect(0, 0, w, h)>> ELSE TileBounds(w, h)
        n     == Len(tiles)
    IN  /\ reuse \/ Cardinality(textures) + n <= MaxTextures
        /\ IF reuse
           THEN \* nvgUpdateImage(nvg, subImages[0].imageId, data)
                /\ img' = [img EXCEPT !.nvg = ctx, !.totalWidth = w, !.totalHeight = h]
                /\ UNCHANGED textures
           ELSE LET subs == [ i \in 1..n |->
                                [imageId |-> CreatedId(fmt, FreshId(i)), bounds |-> tiles[i]] ]
                IN  /\ img' = [img EXCEPT !.nvg = ctx, !.totalWidth = w, !.totalHeight = h,
                                          !.subImages = subs]
                    /\ textures' = textures \cup ({ subs[i].imageId : i \in 1..n } \ {0})
        /\ cacheLast' = [cacheLast EXCEPT !.op = "loadJUCEImage", !.w = w, !.h = h, !.imgLoaded = TRUE]
        /\ UNCHANGED fbo

\* NVGImage::setDirty
ImageSetDirty ==
    /\ img' = [img EXCEPT !.isDirty = TRUE]
    /\ cacheLast' = [cacheLast EXCEPT !.op = "imageSetDirty"]
    /\ UNCHANGED <<fbo, textures>>

\* NVGImage::clearAll
ImageClearAll(ctx) ==
    /\ IF ImageIsValid /\ img.nvg = ctx
       THEN /\ textures' = textures \ { img.subImages[i].imageId : i \in 1..Len(img.subImages) }
            /\ img' = [img EXCEPT !.subImages = <<>>]
       ELSE UNCHANGED <<img, textures>>
    /\ cacheLast' = [cacheLast EXCEPT !.op = "imageClearAll"]
    /\ UNCHANGED fbo

\* NVGFramebuffer::needsUpdate
FramebufferNeedsUpdate(w, h) ==
    fbo.fb = 0 \/ w # fbo.fbWidth \/ h # fbo.fbHeight \/ fbo.fbDirty

\* NVGFramebuffer::bind; created is the handle nvgCreateFramebuffer returns,
\* 0 when the backend fails
BindResult(ctx, w, h, created) ==
    IF fbo.fb = 0 \/ fbo.fbWidth # w \/ fbo.fbHeight # h
    THEN [fbo EXCEPT !.nvg = ctx, !.fb = created, !.fbWidth = w, !.fbHeight = h]
    ELSE fbo

\* what renderToFramebuffer leaves in fbDirty
DirtyAfterRender == FALSE

\* NVGFramebuffer::renderToFramebuffer: bind, renderCallback, unbind,
\* fbDirty = false
RenderToFramebuffer(ctx, w, h) ==
    /\ \E created \in {0, 1} :
          fbo' = [BindResult(ctx, w, h, created) EXCEPT !.fbDirty = DirtyAfterRender]
    /\ cacheLast' = [cacheLast EXCEPT !.op = "renderToFramebuffer", !.w = w, !.h = h,
                                      !.fbRendered = TRUE]
    /\ UNCHANGED <<img, textures>>

\* NVGFramebuffer::setDirty
FramebufferSetDirty ==
    /\ fbo' = [fbo EXCEPT !.fbDirty = TRUE]
    /\ cacheLast' = [cacheLast EXCEPT !.op = "framebufferSetDirty"]
    /\ UNCHANGED <<img, textures>>

\* NVGFramebuffer::clearAll
FramebufferClearAll(ctx) ==
    /\ fbo' = IF fbo.nvg = ctx /\ fbo.fb # 0 THEN [fbo EXCEPT !.fb = 0] ELSE fbo
    /\ cacheLast' = [cacheLast EXCEPT !.op = "framebufferClearAll"]
    /\ UNCHANGED <<img, textures>>

\* NVGImage()
ImageInit ==
    /\ img = [nvg |-> NullCtx, subImages |-> <<>>, totalWidth |-> 0, totalHeight |-> 0,
              isDirty |-> FALSE]
    /\ textures = {}
    /\ cacheLast = [op |-> "ctor", w |-> 0, h |-> 0, imgLoaded |-> FALSE, fbRendered |-> FALSE]

\* NVGFramebuffer(): nvg, fbWidth and fbHeight have no initialiser
FramebufferInit ==
    \E c \in Contexts \cup {NullCtx}, uw \in UninitInts, uh \in UninitInts :
        fbo = [nvg |-> c, fb |-> 0, fbWidth |-> uw, fbHeight |-> uh, fbDirty |-> FALSE]

\* one of the framebuffer's initial states, for the specifications that
\* never touch it
FramebufferRest ==
    fbo = [nvg |-> NullCtx, fb |-> 0, fbWidth |-> 0, fbHeight |-> 0, fbDirty |-> FALSE]

CacheRest == ImageInit /\ FramebufferRest

----------------------------------------------------------------------------
(* Frames: a cache is re-created when needsUpdate says so                  *)

FrameStep(kind, w, h, recreated, allocated, cause) ==
    [kind |-> kind, w |-> w, h |-> h, recreated |-> recreated, allocated |-> allocated,
     cause |-> cause]

\* a frame of a component that draws through a cached image:
\* if (image.needsUpdate(w, h)) image.loadJUCEImage(nvg, ...);
ImageFrame(ctx, w, h) ==
    IF ImageNeedsUpdate(w, h)
    THEN /\ LoadJUCEImage(ctx, w, h, "ARGB")
         /\ frameLast' = FrameStep("image", w, h, TRUE, img'.subImages # img.subImages,
                             imgCause \/ w # img.totalWidth \/ h # img.totalHeight)
         /\ imgCause' = FALSE
         /\ UNCHANGED fbCause
    ELSE /\ frameLast' = FrameStep("image", w, h, FALSE, FALSE, FALSE)
         /\ UNCHANGED <<cacheVars, imgCause, fbCause>>

\* whether bind makes a new framebuffer
BindAllocates(ctx, w, h) == BindResult(ctx, w, h, -1).fb = -1

\* a frame of a component that draws through a framebuffer:
\* if (fb.needsUpdate(w, h)) fb.renderToFramebuffer(nvg, w, h, ...);
FramebufferFrame(ctx, w, h) ==
    IF FramebufferNeedsUpdate(w, h)
    THEN /\ RenderToFramebuffer(ctx, w, h)
         /\ frameLast' = FrameStep("framebuffer", w, h, TRUE, BindAllocates(ctx, w, h),
                             fbCause \/ fbo.fb = 0 \/ w # fbo.fbWidth \/ h # fbo.fbHeight)
         /\ fbCause' = (fbo'.fb = 0)
         /\ UNCHANGED imgCause
    ELSE /\ frameLast' = FrameStep("framebuffer", w, h, FALSE, FALSE, FALSE)
         /\ UNCHANGED <<cacheVars, imgCause, fbCause>>

\* setDirty() or clearAll() between frames
Invalidated(kind) ==
    /\ imgCause' = (imgCause \/ kind = "image")
    /\ fbCause' = (fbCause \/ kind = "framebuffer")
    /\ frameLast' = [frameLast EXCEPT !.kind = "none"]

\* nothing was drawn yet
FrameRest ==
    /\ imgCause = TRUE
    /\ fbCause = TRUE
    /\ frameLast = FrameStep("none", 0, 0, FALSE, FALSE, FALSE)

----------------------------------------------------------------------------
(* PlugDataWindow::closeAllPatches                                         *)

\* how many patches are open at most
MaxPatches == 3
PatchIds == 1..MaxPatches

\* no canvas: getCurrentCanvas() returned nullptr
NoCnv == 0

\* the open tabs a window may have: distinct patches, each dirty or not
RECURSIVE TabSeqs(_)
TabSeqs(n) ==
    IF n = 0 THEN {<<>>}
    ELSE TabSeqs(n - 1) \cup
         { Append(t, [patch |-> q, dirty |-> d]) :
             t \in { u \in TabSeqs(n - 1) : Len(u) = n - 1 }, q \in PatchIds, d \in BOOLEAN }

OpenPatches(ts) == { ts[k].patch : k \in 1..Len(ts) }

\* canvases.removeObject(cnv); tabbar.removeTab(idx)
RemoveTab(ts, idx) == [ k \in 1..(Len(ts) - 1) |-> IF k < idx THEN ts[k] ELSE ts[k + 1] ]

CloseStep(op) == [op |-> op, tabs |-> tabs, asked |-> askedCnv]

\* closeAllPatches with the tabs ts and current tab cur, and deleteFunc's
\* call of it again: a patch that is not dirty is closed at once and the
\* next one is looked at (the last tab is made current); the chain stops at
\* a dirty patch, for which the save dialog is posted, or quits when there
\* is no current canvas
RECURSIVE CloseChain(_, _, _)
CloseChain(ts, cur, log) ==
    IF cur = 0
    THEN [tabs |-> ts, cur |-> 0, phase |-> "quit", asked |-> NoCnv, log |-> log]
    ELSE IF ts[cur].dirty
         THEN [tabs |-> ts, cur |-> cur, phase |-> "posted", asked |-> ts[cur].patch, log |-> log]
         ELSE CloseChain(RemoveTab(ts, cur), Len(ts) - 1,
                         log \cup {[patch |-> ts[cur].patch, dirty |-> FALSE, asked |-> FALSE, result |-> 0]})

\* the state after a chain
Chained(r, op) ==
    /\ tabs' = r.tabs
    /\ currentTab' = r.cur
    /\ closePhase' = r.phase
    /\ askedCnv' = r.asked
    /\ closedLog' = r.log
    /\ closeLast' = CloseStep(op)

\* PlugDataWindow::closeAllPatches, called when the window is closed
CloseAllPatches ==
    /\ closePhase = "idle"
    /\ Chained(CloseChain(tabs, currentTab, closedLog), "closeAllPatches")

\* the position of the asked canvas among the tabs
AskedIdx == CHOOSE k \in 1..Len(tabs) : tabs[k].patch = askedCnv

\* deleteFunc for the asked canvas, then the rest of the chain
DeleteAsked(result, op) ==
    Chained(CloseChain(RemoveTab(tabs, AskedIdx), Len(tabs) - 1,
                       closedLog \cup {[patch |-> askedCnv, dirty |-> tabs[AskedIdx].dirty,
                                        asked |-> TRUE, result |-> result]}), op)

\* the callAsync lambda runs: Dialogs::showSaveDialog
ShowSaveDialog ==
    /\ closePhase = "posted"
    /\ closePhase' = "dialog"
    /\ closeLast' = CloseStep("showSaveDialog")
    /\ UNCHANGED <<tabs, currentTab, askedCnv, closedLog>>

\* a bug: every answer but "save" discards the patch
DiscardsUnlessSave(result) == result # 2

\* else if (result == 1)
Discards(result) == result = 1

\* the dialog's callback: 2 saves and closes after the save, 1 closes, 0
\* does nothing
DialogResult(result) ==
    /\ closePhase = "dialog"
    /\ IF result = 2
       THEN /\ closePhase' = "saving"
            /\ closeLast' = CloseStep("save")
            /\ UNCHANGED <<tabs, currentTab, askedCnv, closedLog>>
       ELSE IF Discards(result)
       THEN DeleteAsked(result, "discard")
       ELSE /\ closePhase' = "idle"
            /\ askedCnv' = NoCnv
            /\ closeLast' = CloseStep("cancel")
            /\ UNCHANGED <<tabs, currentTab, closedLog>>

\* the callback handed to saveProject runs
SaveProjectCallback ==
    /\ closePhase = "saving"
    /\ DeleteAsked(2, "saved")

\* Dialog::mouseDown: a click beside the dialog closes it, no callback runs
DismissDialog ==
    /\ closePhase = "dialog"
    /\ closePhase' = "idle"
    /\ askedCnv' = NoCnv
    /\ closeLast' = CloseStep("dismiss")
    /\ UNCHANGED <<tabs, currentTab, closedLog>>

\* the user selects a tab
SelectTab(k) ==
    /\ closePhase = "idle"
    /\ k \in 1..Len(tabs) /\ k # currentTab
    /\ currentTab' = k
    /\ closeLast' = CloseStep("selectTab")
    /\ UNCHANGED <<tabs, closePhase, askedCnv, closedLog>>

\* the user edits the patch of the current tab
EditPatch ==
    /\ closePhase = "idle"
    /\ currentTab # 0 /\ ~tabs[currentTab].dirty
    /\ tabs' = [tabs EXCEPT ![currentTab].dirty = TRUE]
    /\ closeLast' = CloseStep("edit")
    /\ UNCHANGED <<currentTab, closePhase, askedCnv, closedLog>>

\* a window with some patches open
CloseInit ==
    /\ tabs \in { t \in TabSeqs(MaxPatches) : Cardinality(OpenPatches(t)) = Len(t) }
    /\ currentTab \in (IF tabs = <<>> THEN {0} ELSE 1..Len(tabs))
    /\ closePhase = "idle"
    /\ askedCnv = NoCnv
    /\ closedLog = {}
    /\ closeLast = [op |-> "none", tabs |-> <<>>, asked |-> NoCnv]

\* a window without patches
CloseRest ==
    /\ tabs = <<>>
    /\ currentTab = 0
    /\ closePhase = "idle"
    /\ askedCnv = NoCnv
    /\ closedLog = {}
    /\ closeLast = [op |-> "none", tabs |-> <<>>, asked |-> NoCnv]

----------------------------------------------------------------------------
(* GUIObject::createGui                                                    *)

\* the class names createGui compares against, in source order
MappedNames ==
    { "bng", "button", "hsl", "vsl", "slider", "tgl", "nbx", "numbox~", "vradio", "hradio",
      "cnv", "vu", "text", "comment", "message", "pad", "mouse", "keyboard", "pic",
      "text define", "gatom", "canvas", "graph", "array define", "clone", "pd", "scalar",
      "key", "keyname", "keyup", "oscope~", "scope~", "function", "canvas.active",
      "canvas.mouse", "canvas.vis", "canvas.zoom", "canvas.edit" }

\* class names of the interpreter: the mapped ones, two others and the empty
\* string of a missing name
ClassNames == MappedNames \cup {"osc~", "array", ""}

TeTypes == {"T_TEXT", "T_OBJECT", "T_MESSAGE"}
Flavors == {"A_FLOAT", "A_SYMBOL", "A_NULL", "A_POINTER"}
\* the class of the first object of a canvas's gl_list, "none" for an empty list
HeadClasses == {"none", "array", "other"}

\* an interpreter object as createGui sees it; te_xpix stands for the state
\* of the object that createGui does not inspect
Objects ==
    [ name : ClassNames, te_type : TeTypes, a_flavor : Flavors, isTextObject : BOOLEAN,
      glHead : HeadClasses, gl_isgraph : BOOLEAN, isScalarClass : BOOLEAN,
      patchable : BOOLEAN, te_xpix : {0, 1} ]

NoWidget == [cls |-> "nullptr", arg |-> "", hidesObject |-> FALSE]
Widget(cls) == [cls |-> cls, arg |-> "", hidesObject |-> FALSE]
WidgetWith(cls, arg) == [cls |-> cls, arg |-> arg, hidesObject |-> FALSE]
\* NonPatchable::NonPatchable: object->setVisible(false)
NonPatchableWidget == [cls |-> "NonPatchable", arg |-> "", hidesObject |-> TRUE]

\* a bug: every "text" becomes a TextObject
TextBranchNoComment(o) == WidgetWith("TextObject", "false")

\* name == "text"
TextBranch(o) ==
    IF o.te_type = "T_OBJECT" THEN WidgetWith("TextObject", "false") ELSE Widget("CommentObject")

\* a bug: a message box recognised by its te_type
IsMessageBoxByType(o) == o.name = "message" /\ o.te_type = "T_MESSAGE"

\* name == "message" && libpd_is_text_object(ptr)
IsMessageBox(o) == o.name = "message" /\ o.isTextObject

\* name == "gatom": no return for any other flavor
GatomBranch(o) ==
    IF o.a_flavor = "A_FLOAT" THEN Widget("FloatAtomObject")
    ELSE IF o.a_flavor = "A_SYMBOL" THEN Widget("SymbolAtomObject")
    ELSE IF o.a_flavor = "A_NULL" THEN Widget("ListObject")
    ELSE NoWidget

\* name == "canvas" || name == "graph"
CanvasBranch(o) ==
    IF o.glHead # "none"
    THEN IF o.glHead = "array" THEN Widget("ArrayObject")
         ELSE IF o.gl_isgraph THEN Widget("GraphOnParent")
         ELSE Widget("SubpatchObject")
    ELSE IF o.gl_isgraph THEN Widget("GraphOnParent")
    ELSE Widget("SubpatchObject")

\* name == "scalar": no return unless g_pd == scalar_class
ScalarBranch(o) == IF o.isScalarClass THEN Widget("ScalarObject") ELSE NoWidget

\* return new TextObject(ptr, parent);
FinalReturn(o) == Widget("TextObject")

\* the else-if chain that starts at the "message" test; NoWidget when the
\* chain is left without a return
ElseIfChain(o) ==
    LET name == o.name
    IN  IF IsMessageBox(o) THEN Widget("MessageObject")
        ELSE IF name = "pad" THEN Widget("MousePadObject")
        ELSE IF name = "mouse" THEN Widget("MouseObject")
        ELSE IF name = "keyboard" THEN Widget("KeyboardObject")
        ELSE IF name = "pic" THEN Widget("PictureObject")
        ELSE IF name = "text define" THEN Widget("TextDefineObject")
        ELSE IF name = "gatom" THEN GatomBranch(o)
        ELSE IF name \in {"canvas", "graph"} THEN CanvasBranch(o)
        ELSE IF name = "array define" THEN Widget("ArrayDefineObject")
        ELSE IF name = "clone" THEN Widget("CloneObject")
        ELSE IF name = "pd" THEN Widget("SubpatchObject")
        ELSE IF name = "scalar" THEN ScalarBranch(o)
        ELSE IF name = "key" THEN WidgetWith("KeyObject", "Key")
        ELSE IF name = "keyname" THEN WidgetWith("KeyObject", "KeyName")
        ELSE IF name = "keyup" THEN WidgetWith("KeyObject", "KeyUp")
        ELSE IF name = "oscope~" THEN Widget("OscopeObject")
        ELSE IF name = "scope~" THEN Widget("ScopeObject")
        ELSE IF name = "function" THEN Widget("FunctionObject")
        ELSE IF name = "canvas.active" THEN Widget("CanvasActiveObject")
        ELSE IF name = "canvas.mouse" THEN Widget("CanvasMouseObject")
        ELSE IF name = "canvas.vis" THEN Widget("CanvasVisibleObject")
        ELSE IF name = "canvas.zoom" THEN Widget("CanvasZoomObject")
        ELSE IF name = "canvas.edit" THEN Widget("CanvasEditObject")
        ELSE IF ~o.patchable THEN NonPatchableWidget
        ELSE NoWidget

\* GUIObject::createGui
CreateGui(o) ==
    LET name == o.name
    IN  IF name = "bng" THEN Widget("BangObject")
        ELSE IF name = "button" THEN Widget("ButtonObject")
        ELSE IF name \in {"hsl", "vsl", "slider"} THEN Widget("SliderObject")
        ELSE IF name = "tgl" THEN Widget("ToggleObject")
        ELSE IF name = "nbx" THEN Widget("NumberObject")
        ELSE IF name = "numbox~" THEN Widget("NumboxTildeObject")
        ELSE IF name \in {"vradio", "hradio"} THEN Widget("RadioObject")
        ELSE IF name = "cnv" THEN Widget("CanvasObject")
        ELSE IF name = "vu" THEN Widget("VUMeterObject")
        ELSE IF name = "text" THEN TextBranch(o)
        ELSE IF name = "comment" THEN Widget("CycloneCommentObject")
        ELSE IF ElseIfChain(o) # NoWidget THEN ElseIfChain(o)
        ELSE FinalReturn(o)

CallCreateGui ==
    /\ gui = NoWidget
    /\ gui' = CreateGui(obj)
    /\ UNCHANGED obj

CreateInit ==
    /\ obj \in Objects
    /\ gui = NoWidget

\* one object, for the specifications that never call createGui and as the
\* fixed values of uninspected fields
DefaultObject ==
    [ name |-> "", te_type |-> "T_TEXT", a_flavor |-> "A_NULL", isTextObject |-> FALSE,
      glHead |-> "none", gl_isgraph |-> FALSE, isScalarClass |-> FALSE,
      patchable |-> TRUE, te_xpix |-> 0 ]

CreateRest ==
    /\ obj = DefaultObject
    /\ gui = NoWidget

----------------------------------------------------------------------------
(* The display list: changePos, moveToFront, moveToBack                    *)

MaxObjs == 4

Nodes == 1..MaxObjs
Null == 0

\* the objects reachable from head along g_next, in order
RECURSIVE ListFrom(_, _, _)
ListFrom(head, next, fuel) ==
    IF head = Null \/ fuel = 0 THEN <<>>
    ELSE <<head>> \o ListFrom(next[head], next, fuel - 1)

DisplayList == ListFrom(gl_list, g_next, MaxObjs + 1)

InList(L, o) == \E i \in 1..Len(L) : L[i] = o

IndexOf(L, o) == (CHOOSE i \in 1..Len(L) : L[i] = o) - 1

\* for (i = 0; i < pos - 1 && node->g_next != 0; i++) node = node->g_next;
RECURSIVE Walk(_, _, _)
Walk(next, node, steps) ==
    IF steps <= 0 \/ next[node] = Null THEN node ELSE Walk(next, next[node], steps - 1)

\* changePos: the g_next links it leaves.  root is a local copy of
\* cnv->gl_list, which itself is never written.
ChangePos(head, next, o, pos) ==
    LET L     == ListFrom(head, next, MaxObjs + 1)
        found == \E i \in 1..Len(L) : L[i] = o
        count == IndexOf(L, o)
        \* unlink: root = root->g_next for the first item, else prev->g_next = link->g_next
        root  == IF count = 0 THEN next[o] ELSE head
        next1 == IF count = 0 THEN next ELSE [next EXCEPT ![L[count]] = next[o]]
    IN  IF ~found THEN next
        ELSE IF count = pos THEN next
        ELSE IF pos = 0 THEN [next1 EXCEPT ![o] = root]
        ELSE LET node  == Walk(next1, root, pos - 1)
                 next2 == [next1 EXCEPT ![o] = next1[node]]
             IN  [next2 EXCEPT ![node] = o]

\* the index moveToFront computes: the number of objects minus one
FrontIndex == Len(DisplayList) - 1

\* a bug: moveToFront puts the object in front of the head without
\* looking for it in the list
MoveToFrontLinksUnsearched(o) == [g_next EXCEPT ![o] = gl_list]

\* ObjectBase::moveToFront
MoveToFrontLinks(o) ==
    IF FrontIndex < 0 THEN g_next ELSE ChangePos(gl_list, g_next, o, FrontIndex)

\* pd::Storage::isInfoParent(canvas->gl_list), used as the target index: 1
\* when the head of the list is the reserved info-parent canvas, else 0
IsInfoParent(head) == IF head # Null /\ head = 1 /\ infoParent THEN 1 ELSE 0

\* ObjectBase::moveToBack
MoveToBackLinks(o) == ChangePos(gl_list, g_next, o, IsInfoParent(gl_list))

\* the objects that have a GUI wrapper: all but the info-parent canvas; the
\* objects beyond the n linked ones are wrapped objects that are not (or no
\* longer) in the canvas's list
Wrapped == { o \in Nodes : ~(infoParent /\ o = 1) }

MoveToFront(o) ==
    /\ o \in Wrapped
    /\ g_next' = MoveToFrontLinks(o)
    /\ zLast' = [zLast EXCEPT !.op = "moveToFront", !.o = o, !.idx = FrontIndex,
                              !.before = DisplayList]
    /\ UNCHANGED <<gl_list, infoParent>>

MoveToBack(o) ==
    /\ o \in Wrapped
    /\ g_next' = MoveToBackLinks(o)
    /\ zLast' = [zLast EXCEPT !.op = "moveToBack", !.o = o, !.idx = IsInfoParent(gl_list),
                              !.before = DisplayList]
    /\ UNCHANGED <<gl_list, infoParent>>

\* a canvas with n objects linked 1 -> 2 -> ... -> n
ZInitWith(n, info) ==
    /\ gl_list = IF n = 0 THEN Null ELSE 1
    /\ g_next = [ o \in Nodes |-> IF o < n THEN o + 1 ELSE Null ]
    /\ infoParent = info
    /\ zLast = [op |-> "none", o |-> Null, idx |-> 0, before |-> <<>>, n |-> n]

ZInit == \E n \in 0..MaxObjs, info \in BOOLEAN : (info => n >= 1) /\ ZInitWith(n, info)

ZRest == ZInitWith(0, FALSE)

----------------------------------------------------------------------------
(* changePos step by step, next to the interpreter                         *)

\* changePos up to "link is detached": the links after the unlink
UnlinkLinks(head, next, o) ==
    LET L     == ListFrom(head, next, MaxObjs + 1)
        count == IndexOf(L, o)
    IN  IF count = 0 THEN next ELSE [next EXCEPT ![L[count]] = next[o]]

\* the local root after the unlink
UnlinkRoot(head, next, o) ==
    IF IndexOf(ListFrom(head, next, MaxObjs + 1), o) = 0 THEN next[o] ELSE head

\* changePos from "now where does it go?": the links after the relink
RelinkLinks(next1, root, o, pos) ==
    IF pos = 0 THEN [next1 EXCEPT ![o] = root]
    ELSE LET node  == Walk(next1, root, pos - 1)
             next2 == [next1 EXCEPT ![o] = next1[node]]
         IN  [next2 EXCEPT ![node] = o]

\* whether changePos gets past its two early returns
Relinks(o, pos) ==
    /\ InList(DisplayList, o)
    /\ IndexOf(DisplayList, o) # pos

Idle == [phase |-> "idle", o |-> Null, pos |-> 0, root |-> Null]

\* moveToFront / moveToBack up to the unlink.  Neither they nor changePos
\* take a lock: the step neither waits for sysLock nor sets it.
BeginMove(o, front) ==
    LET pos == IF front THEN FrontIndex ELSE IsInfoParent(gl_list)
    IN  /\ zMove.phase = "idle"
        /\ o \in Wrapped
        /\ zLast' = [zLast EXCEPT !.op = IF front THEN "moveToFront" ELSE "moveToBack",
                                  !.o = o, !.idx = pos, !.before = DisplayList]
        /\ IF pos >= 0 /\ Relinks(o, pos)
           THEN /\ g_next' = UnlinkLinks(gl_list, g_next, o)
                /\ zMove' = [phase |-> "unlinked", o |-> o, pos |-> pos,
                             root |-> UnlinkRoot(gl_list, g_next, o)]
           ELSE UNCHANGED <<g_next, zMove>>
        /\ UNCHANGED <<gl_list, infoParent, sysLock, pdSaw>>

\* the rest of changePos
FinishMove ==
    /\ zMove.phase = "unlinked"
    /\ g_next' = RelinkLinks(g_next, zMove.root, zMove.o, zMove.pos)
    /\ zMove' = Idle
    /\ UNCHANGED <<gl_list, infoParent, zLast, sysLock, pdSaw>>

\* the interpreter context takes its lock
PdLock ==
    /\ sysLock = "none"
    /\ sysLock' = "pd"
    /\ UNCHANGED <<zVars, zMove, pdSaw>>

\* an interpreter step under the lock walks the display list
PdWalk ==
    /\ sysLock = "pd"
    /\ pdSaw' = [list |-> DisplayList, midMove |-> zMove.phase = "unlinked"]
    /\ UNCHANGED <<zVars, zMove, sysLock>>

PdUnlock ==
    /\ sysLock = "pd"
    /\ sysLock' = "none"
    /\ UNCHANGED <<zVars, zMove, pdSaw>>

LockRest ==
    /\ sysLock = "none"
    /\ zMove = Idle
    /\ pdSaw = [list |-> <<>>, midMove |-> FALSE]

----------------------------------------------------------------------------
(* GUIObject construction and destruction: the message listeners           *)

MaxWrappers == 4

WrapperIds == 1..MaxWrappers
Ptrs == {"ptrA", "ptrB", "ptrC"}
NoPtr == "none"

\* pd::Instance::registerMessageListener: the listener is added to the
\* listeners of the pointer
RegisterMessageListener(reg, p, w) == reg \cup {<<p, w>>}

\* pd::Instance::unregisterMessageListener
UnregisterMessageListener(reg, p, w) == reg \ {<<p, w>>}

\* GUIObject::GUIObject(obj, parent): registers itself for ptr, whatever is
\* registered already
Construct(w, p) ==
    /\ w \notin live
    /\ live' = live \cup {w}
    /\ wptr' = [wptr EXCEPT ![w] = p]
    /\ listeners' = RegisterMessageListener(listeners, p, w)

\* GUIObject::~GUIObject
Destruct(w) ==
    /\ w \in live
    /\ listeners' = UnregisterMessageListener(listeners, wptr[w], w)
    /\ live' = live \ {w}
    /\ wptr' = [wptr EXCEPT ![w] = NoPtr]

RegRest ==
    /\ live = {}
    /\ wptr = [w \in WrapperIds |-> NoPtr]
    /\ listeners = {}

----------------------------------------------------------------------------
(* ObjectBase::getType                                                     *)

\* what ptr may refer to: nothing, or an object with a class name (nullptr
\* when libpd_get_object_class_name finds none), that is an abstraction or
\* not, with te_type and the atoms of its binbuf (the first one matters)
TypeNames == {"nullptr", "text", "osc~", "canvas"}
FirstAtoms == {"none", "abs", "lib/abs"}

TypePtrs ==
    {[null |-> TRUE, abstraction |-> FALSE, name |-> "nullptr", te_type |-> "T_TEXT", atom |-> "none"]}
    \cup [null : {FALSE}, abstraction : BOOLEAN, name : TypeNames,
          te_type : {"T_TEXT", "T_OBJECT"}, atom : FirstAtoms]

\* String::fromLastOccurrenceOf("/", false, false)
FromLastSlash(str) == IF str = "lib/abs" THEN "abs" ELSE str

\* the return statement getType leaves by
TypePath(o) ==
    IF o.null THEN "fallthrough"
    ELSE IF o.name = "canvas" /\ o.abstraction
         THEN (IF o.atom = "none" THEN "emptyBinbuf" ELSE "abstraction")
    ELSE IF o.name = "text" /\ o.te_type = "T_OBJECT" THEN "text"
    ELSE IF o.name # "nullptr" THEN "className"
    ELSE "fallthrough"

\* the string getType returns
TypeString(o) ==
    CASE TypePath(o) = "abstraction" -> FromLastSlash(o.atom)
      [] TypePath(o) = "text" -> "invalid"
      [] TypePath(o) = "className" -> o.name
      [] OTHER -> ""

\* sys_unlock() is called before the last return only
SysUnlocks(o) == IF TypePath(o) = "fallthrough" THEN 1 ELSE 0

\* ObjectBase::getType: the ScopedLock takes the callback lock on entry and
\* its destructor releases it at every return; sys_unlock() releases the
\* interpreter's lock, which getType has not taken
GetType ==
    /\ typeLast' = [op |-> "getType", path |-> TypePath(typePtr), ret |-> TypeString(typePtr),
                    enter |-> 1, exit |-> 1, sys_lock |-> 0, sys_unlock |-> SysUnlocks(typePtr)]
    /\ UNCHANGED typePtr

\* the object behind ptr changes, or ptr is another object's
SetTypePtr(o) ==
    /\ typePtr # o
    /\ typePtr' = o
    /\ typeLast' = [typeLast EXCEPT !.op = "setPtr"]

TypeRest ==
    /\ typePtr = [null |-> TRUE, abstraction |-> FALSE, name |-> "nullptr", te_type |-> "T_TEXT", atom |-> "none"]
    /\ typeLast = [op |-> "none", path |-> "none", ret |-> "", enter |-> 0, exit |-> 0,
                   sys_lock |-> 0, sys_unlock |-> 0]

\* no edition gesture was made
EditLogRest ==
    /\ editionCalls = <<>>
    /\ mouseSent = <<>>

\* no step of updateValue's lambda is in progress
ThreadRest ==
    /\ pdPc = "idle"
    /\ lastAccess = {}

----------------------------------------------------------------------------
(* NVGCachedPath, and what the render caches ask of the backend            *)

\* the NVGCachedPath objects alive, and the cache id the backend gives each
PathIds == {"pathA", "pathB"}
PathHandle(i) == IF i = "pathA" THEN 1 ELSE 2
NoCache == -1

\* NVGCachedPath(): nvg = nullptr, cacheId = -1
NewPath == [nvg |-> NullCtx, cacheId |-> NoCache]

\* NVGCachedPath::isValid
PathIsValid(i) == paths[i].cacheId # NoCache

\* a cache operation: its name, the object it was called on, what it
\* returned, and the backend calls that delete or draw
GpuCall(op, arg, ret, backend) == [op |-> op, arg |-> arg, ret |-> ret, backend |-> backend]

\* NVGCachedPath::clear, as a function of the path
Cleared(path) == IF path.cacheId # NoCache THEN NewPath ELSE path

\* one nvgDeletePath for every path of S that is realized
DeleteCalls(S) == [ k \in 1..Cardinality({ i \in S : PathIsValid(i) }) |-> "nvgDeletePath" ]

\* a bug: clearAll looks at the context only of the first path
PathsAfterClearAllFirstOnly(ctx) ==
    [ i \in PathIds |-> IF i = "pathA" /\ paths[i].nvg = ctx THEN Cleared(paths[i]) ELSE paths[i] ]

\* NVGCachedPath::clearAll
PathsAfterClearAll(ctx) ==
    [ i \in PathIds |-> IF paths[i].nvg = ctx THEN Cleared(paths[i]) ELSE paths[i] ]

\* NVGCachedPath::save; nvgSavePath returns a cache id, or -1 when the
\* backend saves nothing
PathSave(i, ctx) ==
    /\ \E id \in {NoCache, PathHandle(i)} :
          paths' = [paths EXCEPT ![i] = [nvg |-> ctx, cacheId |-> id]]
    /\ gpuLast' = GpuCall("save", i, "void",
                      IF paths[i].nvg = ctx /\ paths[i].cacheId # NoCache
                      THEN <<"nvgDeletePath">> ELSE <<>>)

\* NVGCachedPath::clear
PathClear(i) ==
    /\ paths' = [paths EXCEPT ![i] = Cleared(paths[i])]
    /\ gpuLast' = GpuCall("clear", i, "void", DeleteCalls({i}))

PathClearAll(ctx) ==
    /\ paths' = PathsAfterClearAll(ctx)
    /\ gpuLast' = GpuCall("pathClearAll", ctx, "void",
                      DeleteCalls({ i \in PathIds : paths[i] # paths'[i] }))

\* NVGCachedPath::resetAll
PathResetAll ==
    /\ paths' = [ i \in PathIds |-> Cleared(paths[i]) ]
    /\ gpuLast' = GpuCall("resetAll", "all", "void", DeleteCalls(PathIds))

\* a bug: stroke and fill go to the backend without a look at the path
PathDrawsUnguarded(i) == TRUE

\* the guard of NVGCachedPath::stroke and fill
PathDraws(i) == ~(paths[i].nvg = NullCtx \/ paths[i].cacheId = NoCache)

\* NVGCachedPath::stroke; nvgStrokeCachedPath returns a bool
PathStroke(i) ==
    /\ IF PathDraws(i)
       THEN \E r \in BOOLEAN : gpuLast' = GpuCall("stroke", i, r, <<"nvgStrokeCachedPath">>)
       ELSE gpuLast' = GpuCall("stroke", i, FALSE, <<>>)
    /\ UNCHANGED paths

\* NVGCachedPath::fill
PathFill(i) ==
    /\ IF PathDraws(i)
       THEN \E r \in BOOLEAN : gpuLast' = GpuCall("fill", i, r, <<"nvgFillCachedPath">>)
       ELSE gpuLast' = GpuCall("fill", i, FALSE, <<>>)
    /\ UNCHANGED paths

\* NVGFramebuffer::render
FramebufferRender ==
    /\ gpuLast' = GpuCall("framebufferRender", "fbo", "void",
                      IF fbo.fb # 0 THEN <<"nvgFillPaint", "nvgFillRect">> ELSE <<>>)
    /\ UNCHANGED paths

\* NVGFramebuffer::getImage
FramebufferGetImage ==
    /\ gpuLast' = GpuCall("getImage", "fbo", IF fbo.fb = 0 THEN -1 ELSE fbo.fb, <<>>)
    /\ UNCHANGED paths

\* the bounds NVGImage::render fills, one nvgFillPaint / nvgFillRect per
\* sub-image
ImageDraws == [ i \in 1..Len(img.subImages) |-> img.subImages[i].bounds ]

\* NVGImage::render: nvgSave, nvgScale, the sub-images, nvgRestore
ImageRender ==
    /\ gpuLast' = GpuCall("imageRender", "img", "void", ImageDraws)
    /\ UNCHANGED paths

PathInit ==
    /\ paths = [ i \in PathIds |-> NewPath ]
    /\ gpuLast = GpuCall("ctor", "none", "void", <<>>)

PathRest == PathInit

----------------------------------------------------------------------------
(* The render caches as objects: construction, copy, move, destruction,    *)
(* the process-wide registries and the backend resources they own          *)

ImageObjs == {"imgA", "imgB"}
FbObjs == {"fbA", "fbB"}
PathObjs == {"cpA", "cpB"}

\* how many ids a backend context hands out
MaxIds == 3

\* a backend call: the function, the context and id passed, the context the
\* id was created in, and whether the backend knew the resource at the call
Call(fn, ctx, id, origin, known) ==
    [fn |-> fn, ctx |-> ctx, id |-> id, origin |-> origin, known |-> known]

OwnStep(op, o, backend) == [op |-> op, obj |-> o, backend |-> backend]

\* the members of an NVGImage after NVGImage()
NewImage ==
    [live |-> TRUE, nvg |-> NullCtx, subImages |-> <<>>, totalWidth |-> 0, totalHeight |-> 0]

\* storage that holds no object
NoImage == [NewImage EXCEPT !.live = FALSE]

\* an image id is per context: nvgCreateImage returns the smallest id the
\* context does not have in use
IdsFree(alloc, ctx) == (1..MaxIds) \ { q[2] : q \in { r \in alloc : r[1] = ctx } }
NthFree(alloc, ctx, k) ==
    CHOOSE id \in IdsFree(alloc, ctx) : Cardinality({ j \in IdsFree(alloc, ctx) : j < id }) = k - 1

\* the ids a wrapper holds, each with the context it was created in
Held(im) == { <<im.subImages[k].origin, im.subImages[k].imageId>> : k \in 1..Len(im.subImages) } \ { <<c, 0>> : c \in Contexts }

\* for (auto& subImage : subImages) nvgDeleteImage(nvg, subImage.imageId)
ImageDeletes(im, alloc) ==
    [ k \in 1..Len(im.subImages) |->
        Call("nvgDeleteImage", im.nvg, im.subImages[k].imageId, im.subImages[k].origin,
             <<im.nvg, im.subImages[k].imageId>> \in alloc) ]

\* ~NVGImage and operator=: the deletes happen under subImages.size() && nvg
ImageDeletesGuarded(im, alloc) ==
    IF im.subImages # <<>> /\ im.nvg # NullCtx THEN ImageDeletes(im, alloc) ELSE <<>>

\* what the backend has left after the delete calls
AfterDeletes(alloc, cs) == alloc \ { <<cs[k].ctx, cs[k].id>> : k \in 1..Len(cs) }

\* the reuse shortcut of loadJUCEImage; its nvg == context test holds always,
\* nvg having been assigned context on entry
Reuses(im, ctx, w, h) ==
    /\ w <= TextureSizeLimit /\ h <= TextureSizeLimit
    /\ im.subImages # <<>>
    /\ im.subImages[1].bounds = Rect(0, 0, w, h)

\* NVGImage::loadJUCEImage on the members im: the members afterwards
LoadedImage(im, ctx, w, h, fmt, alloc) ==
    LET small == w <= TextureSizeLimit /\ h <= TextureSizeLimit
        tiles == IF small THEN <<Rect(0, 0, w, h)>> ELSE TileBounds(w, h)
        subs  == [ i \in 1..Len(tiles) |->
                     [imageId |-> CreatedId(fmt, NthFree(alloc, ctx, i)), bounds |-> tiles[i],
                      origin |-> ctx] ]
    IN  IF Reuses(im, ctx, w, h)
        THEN [im EXCEPT !.nvg = ctx, !.totalWidth = w, !.totalHeight = h]
        ELSE [im EXCEPT !.nvg = ctx, !.totalWidth = w, !.totalHeight = h, !.subImages = subs]

\* the backend calls of loadJUCEImage that take an existing id
LoadCalls(im, ctx, w, h, alloc) ==
    IF Reuses(im, ctx, w, h)
    THEN <<Call("nvgUpdateImage", ctx, im.subImages[1].imageId, im.subImages[1].origin,
                <<ctx, im.subImages[1].imageId>> \in alloc)>>
    ELSE <<>>

\* whether the backend has ids left for the load
CanLoad(im, ctx, w, h, alloc) ==
    \/ Reuses(im, ctx, w, h)
    \/ Cardinality(IdsFree(alloc, ctx)) >=
          (IF w <= TextureSizeLimit /\ h <= TextureSizeLimit THEN 1 ELSE Len(TileBounds(w, h)))

OwnFbUnchanged == UNCHANGED <<framebuffers, allFramebuffers, gpuFbs>>
OwnPathUnchanged == UNCHANGED <<cachedPaths, allCachedPaths, gpuPaths>>
OwnImageUnchanged == UNCHANGED <<images, allImages, gpuImages>>

\* NVGImage()
ImgConstruct(i) ==
    /\ ~images[i].live
    /\ images' = [images EXCEPT ![i] = NewImage]
    /\ allImages' = allImages \cup {i}
    /\ ownLast' = OwnStep("NVGImage()", i, <<>>)
    /\ UNCHANGED gpuImages /\ OwnFbUnchanged /\ OwnPathUnchanged

\* NVGImage(nvg, width, height, renderCall, ...): the format is ARGB or
\* SingleChannel
ImgConstructRendering(i, ctx, w, h, fmt) ==
    /\ ~images[i].live
    /\ CanLoad(NewImage, ctx, w, h, gpuImages)
    /\ images' = [images EXCEPT ![i] = LoadedImage(NewImage, ctx, w, h, fmt, gpuImages)]
    /\ gpuImages' = gpuImages \cup Held(images'[i])
    /\ allImages' = allImages \cup {i}
    /\ ownLast' = OwnStep("NVGImage(render)", i, <<>>)
    /\ OwnFbUnchanged /\ OwnPathUnchanged

\* NVGImage(NVGImage& other): isDirty, not modelled here, is not copied
ImgCopyConstruct(i, other) ==
    /\ ~images[i].live /\ images[other].live
    /\ images' = [images EXCEPT ![i] = images[other], ![other].subImages = <<>>]
    /\ allImages' = allImages \cup {i}
    /\ ownLast' = OwnStep("NVGImage(copy)", i, <<>>)
    /\ UNCHANGED gpuImages /\ OwnFbUnchanged /\ OwnPathUnchanged

\* NVGImage::operator=(NVGImage&& other)
ImgMoveAssign(i, other) ==
    /\ images[i].live /\ images[other].live
    /\ IF i = other
       THEN UNCHANGED <<images, allImages, gpuImages>> /\ ownLast' = OwnStep("operator=", i, <<>>)
       ELSE LET dels == ImageDeletesGuarded(images[i], gpuImages)
            IN  /\ images' = [images EXCEPT ![i] = images[other], ![other].subImages = <<>>]
                /\ gpuImages' = AfterDeletes(gpuImages, dels)
                /\ allImages' = allImages \cup {i}
                /\ ownLast' = OwnStep("operator=", i, dels)
    /\ OwnFbUnchanged /\ OwnPathUnchanged

\* NVGImage::~NVGImage
ImgDestruct(i) ==
    /\ images[i].live
    /\ LET dels == ImageDeletesGuarded(images[i], gpuImages)
       IN  /\ gpuImages' = AfterDeletes(gpuImages, dels)
           /\ ownLast' = OwnStep("~NVGImage", i, dels)
    /\ images' = [images EXCEPT ![i] = NoImage]
    /\ allImages' = allImages \ {i}
    /\ OwnFbUnchanged /\ OwnPathUnchanged

\* NVGImage::loadJUCEImage on an object
ImgLoad(i, ctx, w, h, fmt) ==
    /\ images[i].live
    /\ CanLoad(images[i], ctx, w, h, gpuImages)
    /\ images' = [images EXCEPT ![i] = LoadedImage(images[i], ctx, w, h, fmt, gpuImages)]
    /\ gpuImages' = IF Reuses(images[i], ctx, w, h) THEN gpuImages
                    ELSE gpuImages \cup Held(images'[i])
    /\ ownLast' = OwnStep("loadJUCEImage", i, LoadCalls(images[i], ctx, w, h, gpuImages))
    /\ UNCHANGED allImages /\ OwnFbUnchanged /\ OwnPathUnchanged

\* the registered images clearAll(nvg) clears
ClearedImages(ctx) == { i \in allImages : images[i].subImages # <<>> /\ images[i].nvg = ctx }

\* the elements of a finite set of objects in some order
RECURSIVE SeqOf(_)
SeqOf(S) == IF S = {} THEN <<>> ELSE LET x == CHOOSE e \in S : TRUE IN <<x>> \o SeqOf(S \ {x})

RECURSIVE Flatten(_)
Flatten(ss) == IF ss = <<>> THEN <<>> ELSE Head(ss) \o Flatten(Tail(ss))

\* NVGImage::clearAll(nvg)
ImgClearAll(ctx) ==
    LET order == SeqOf(ClearedImages(ctx))
        dels  == Flatten([ k \in 1..Len(order) |-> ImageDeletes(images[order[k]], gpuImages) ])
    IN  /\ images' = [ i \in ImageObjs |->
                         IF i \in ClearedImages(ctx) THEN [images[i] EXCEPT !.subImages = <<>>]
                         ELSE images[i] ]
        /\ gpuImages' = AfterDeletes(gpuImages, dels)
        /\ ownLast' = OwnStep("NVGImage::clearAll", ctx, dels)
        /\ UNCHANGED allImages /\ OwnFbUnchanged /\ OwnPathUnchanged

\* a framebuffer handle is a pointer: nvgCreateFramebuffer returns one that
\* is not in use
MaxFbs == 3
FreshFb(alloc) == CHOOSE f \in (1..MaxFbs) \ alloc : \A g \in (1..MaxFbs) \ alloc : f <= g

NoFramebuffer ==
    [live |-> FALSE, nvg |-> NullCtx, fb |-> 0, fbWidth |-> 0, fbHeight |-> 0, fbDirty |-> FALSE]

\* nvgDeleteFramebuffer(fb)
FbDelete(o, alloc) == <<Call("nvgDeleteFramebuffer", o.nvg, o.fb, o.nvg, o.fb \in alloc)>>

\* NVGFramebuffer(): nvg, fbWidth and fbHeight have no initialiser
FbConstruct(f) ==
    /\ ~framebuffers[f].live
    /\ \E c \in Contexts \cup {NullCtx}, uw \in UninitInts, uh \in UninitInts :
          framebuffers' = [framebuffers EXCEPT ![f] =
              [live |-> TRUE, nvg |-> c, fb |-> 0, fbWidth |-> uw, fbHeight |-> uh, fbDirty |-> FALSE]]
    /\ allFramebuffers' = allFramebuffers \cup {f}
    /\ ownLast' = OwnStep("NVGFramebuffer()", f, <<>>)
    /\ UNCHANGED gpuFbs /\ OwnImageUnchanged /\ OwnPathUnchanged

\* NVGFramebuffer(const NVGFramebuffer&): the class declares no copy
\* constructor and is not made non-copyable, so the compiler generates the
\* member-wise one; the constructor body with the insert does not run
FbCopyConstruct(f, other) ==
    /\ ~framebuffers[f].live /\ framebuffers[other].live
    /\ framebuffers' = [framebuffers EXCEPT ![f] = framebuffers[other]]
    /\ ownLast' = OwnStep("NVGFramebuffer(copy)", f, <<>>)
    /\ UNCHANGED <<allFramebuffers, gpuFbs>> /\ OwnImageUnchanged /\ OwnPathUnchanged

\* NVGFramebuffer::~NVGFramebuffer
FbDestruct(f) ==
    /\ framebuffers[f].live
    /\ LET dels == IF framebuffers[f].fb # 0 THEN FbDelete(framebuffers[f], gpuFbs) ELSE <<>>
       IN  /\ gpuFbs' = gpuFbs \ { dels[k].id : k \in 1..Len(dels) }
           /\ ownLast' = OwnStep("~NVGFramebuffer", f, dels)
    /\ framebuffers' = [framebuffers EXCEPT ![f] = NoFramebuffer]
    /\ allFramebuffers' = allFramebuffers \ {f}
    /\ OwnImageUnchanged /\ OwnPathUnchanged

\* NVGFramebuffer::bind
FbBind(f, ctx, w, h) ==
    /\ framebuffers[f].live
    /\ LET o == framebuffers[f]
       IN  IF o.fb = 0 \/ o.fbWidth # w \/ o.fbHeight # h
           THEN LET dels == IF o.fb # 0 THEN FbDelete([o EXCEPT !.nvg = ctx], gpuFbs) ELSE <<>>
                    left == gpuFbs \ { dels[k].id : k \in 1..Len(dels) }
                IN  /\ left # 1..MaxFbs
                    /\ framebuffers' = [framebuffers EXCEPT ![f] =
                          [o EXCEPT !.nvg = ctx, !.fb = FreshFb(left), !.fbWidth = w, !.fbHeight = h]]
                    /\ gpuFbs' = left \cup {FreshFb(left)}
                    /\ ownLast' = OwnStep("bind", f, dels \o <<Call("nvgCreateFramebuffer", ctx, FreshFb(left), ctx, TRUE)>>)
           ELSE /\ UNCHANGED <<framebuffers, gpuFbs>>
                /\ ownLast' = OwnStep("bind", f, <<>>)
    /\ UNCHANGED allFramebuffers /\ OwnImageUnchanged /\ OwnPathUnchanged

\* the registered framebuffers clearAll(nvg) clears
ClearedFbs(ctx) == { f \in allFramebuffers : framebuffers[f].nvg = ctx /\ framebuffers[f].fb # 0 }

\* NVGFramebuffer::clearAll(nvg)
FbClearAll(ctx) ==
    LET order == SeqOf(ClearedFbs(ctx))
        dels  == Flatten([ k \in 1..Len(order) |-> FbDelete(framebuffers[order[k]], gpuFbs) ])
    IN  /\ framebuffers' = [ f \in FbObjs |->
                               IF f \in ClearedFbs(ctx) THEN [framebuffers[f] EXCEPT !.fb = 0]
                               ELSE framebuffers[f] ]
        /\ gpuFbs' = gpuFbs \ { dels[k].id : k \in 1..Len(dels) }
        /\ ownLast' = OwnStep("NVGFramebuffer::clearAll", ctx, dels)
        /\ UNCHANGED allFramebuffers /\ OwnImageUnchanged /\ OwnPathUnchanged

\* storage that holds no NVGCachedPath
NoCachedPath == [live |-> FALSE, nvg |-> NullCtx, cacheId |-> NoCache, origin |-> NullCtx]

\* NVGCachedPath()
CpConstruct(q) ==
    /\ ~cachedPaths[q].live
    /\ cachedPaths' = [cachedPaths EXCEPT ![q] = [NoCachedPath EXCEPT !.live = TRUE]]
    /\ allCachedPaths' = allCachedPaths \cup {q}
    /\ ownLast' = OwnStep("NVGCachedPath()", q, <<>>)
    /\ UNCHANGED gpuPaths /\ OwnImageUnchanged /\ OwnFbUnchanged

\* NVGCachedPath(const NVGCachedPath&), implicit: member-wise copy, no insert
CpCopyConstruct(q, other) ==
    /\ ~cachedPaths[q].live /\ cachedPaths[other].live
    /\ cachedPaths' = [cachedPaths EXCEPT ![q] = cachedPaths[other]]
    /\ ownLast' = OwnStep("NVGCachedPath(copy)", q, <<>>)
    /\ UNCHANGED <<allCachedPaths, gpuPaths>> /\ OwnImageUnchanged /\ OwnFbUnchanged

\* nvgDeletePath(nvg, cacheId)
CpDelete(o, alloc) ==
    <<Call("nvgDeletePath", o.nvg, o.cacheId, o.origin, <<o.nvg, o.cacheId>> \in alloc)>>

\* NVGCachedPath::~NVGCachedPath
CpDestruct(q) ==
    /\ cachedPaths[q].live
    /\ LET dels == IF cachedPaths[q].cacheId # NoCache THEN CpDelete(cachedPaths[q], gpuPaths) ELSE <<>>
       IN  /\ gpuPaths' = AfterDeletes(gpuPaths, dels)
           /\ ownLast' = OwnStep("~NVGCachedPath", q, dels)
    /\ cachedPaths' = [cachedPaths EXCEPT ![q] = NoCachedPath]
    /\ allCachedPaths' = allCachedPaths \ {q}
    /\ OwnImageUnchanged /\ OwnFbUnchanged

\* NVGCachedPath::save: nvgSavePath(nvg, cacheId) is handed the old cache id
\* and returns the id of the saved path, the smallest the context has free,
\* or -1 when it saves nothing
CpSave(q, ctx) ==
    /\ cachedPaths[q].live
    /\ LET o    == cachedPaths[q]
           dels == IF o.nvg = ctx /\ o.cacheId # NoCache THEN CpDelete(o, gpuPaths) ELSE <<>>
           left == AfterDeletes(gpuPaths, dels)
           save == Call("nvgSavePath", ctx, o.cacheId, o.origin,
                        o.cacheId = NoCache \/ <<ctx, o.cacheId>> \in left)
       IN  /\ \E id \in {NoCache} \cup (IF IdsFree(left, ctx) = {} THEN {} ELSE {NthFree(left, ctx, 1)}) :
                 /\ cachedPaths' = [cachedPaths EXCEPT ![q] =
                        [o EXCEPT !.nvg = ctx, !.cacheId = id, !.origin = ctx]]
                 /\ gpuPaths' = IF id = NoCache THEN left ELSE left \cup {<<ctx, id>>}
           /\ ownLast' = OwnStep("save", q, dels \o <<save>>)
    /\ UNCHANGED allCachedPaths /\ OwnImageUnchanged /\ OwnFbUnchanged

\* no render cache object exists
OwnRest ==
    /\ images = [ i \in ImageObjs |-> NoImage ]
    /\ framebuffers = [ f \in FbObjs |-> NoFramebuffer ]
    /\ cachedPaths = [ q \in PathObjs |-> NoCachedPath ]
    /\ allImages = {} /\ allFramebuffers = {} /\ allCachedPaths = {}
    /\ gpuImages = {} /\ gpuFbs = {} /\ gpuPaths = {}
    /\ ownLast = OwnStep("none", "none", <<>>)

----------------------------------------------------------------------------
(* CanvasViewport: magnify, visibleAreaChanged and the resize timer        *)

\* the local bounds of the render surface
SurfaceBounds == Rect(0, 0, 8, 6)

\* NVGSurface::invalidateAll: the whole surface becomes the dirty rectangle
SurfaceInvalidateAll ==
    /\ invalidArea' = SurfaceBounds
    /\ calls' = calls \cup {<<"surface", SurfaceBounds>>}
    /\ UNCHANGED visible

\* the scale factors passed to magnify: 0 stands for "approximately zero"
ScaleFactors == {Zero, One, Int2Rat(2)}

ZoomStep(op) == [op |-> op, scaleChanged |-> scaleChanged]

\* magnify up to cnv->setTransform: the scale factor that is applied
AppliedScale(f) == IF f = Zero THEN One ELSE f

\* what visibleAreaChanged does to the zoom state when scaleChanged is as given
AreaChangeStartsTimer(changed) ==
    /\ isZooming' = (changed \/ isZooming)
    /\ resizeTimer' = (changed \/ resizeTimer)

\* CanvasViewport::visibleAreaChanged
VisibleAreaChanged ==
    /\ AreaChangeStartsTimer(scaleChanged)
    /\ SurfaceInvalidateAll
    /\ zoomLast' = ZoomStep("visibleAreaChanged")
    /\ UNCHANGED <<scaleChanged, lastScaleFactor>>

\* CanvasViewport::magnify.  setTransform, setTopLeftPosition and resized()
\* make the viewport report a visible-area change when the visible area
\* moved: areaMoved says whether visibleAreaChanged ran inside this call.
Magnify(f, areaMoved) ==
    /\ IF AppliedScale(f) = lastScaleFactor
       THEN UNCHANGED <<scaleChanged, lastScaleFactor, isZooming, resizeTimer, invalVars>>
       ELSE /\ lastScaleFactor' = AppliedScale(f)
            /\ scaleChanged' = TRUE
            /\ IF areaMoved
               THEN AreaChangeStartsTimer(TRUE) /\ SurfaceInvalidateAll
               ELSE UNCHANGED <<isZooming, resizeTimer, invalVars>>
    /\ zoomLast' = ZoomStep("magnify")

\* a bug: the timer callback never resets the cached paths
TimerNeverResets(changed) == FALSE

\* if (scaleChanged) NVGCachedPath::resetAll();
TimerResets(changed) == changed

\* CanvasViewport::timerCallback(Timers::ResizeTimer)
TimerCallback ==
    /\ resizeTimer
    /\ resizeTimer' = FALSE
    /\ isZooming' = FALSE
    /\ IF TimerResets(scaleChanged) THEN PathResetAll ELSE UNCHANGED pathVars
    /\ scaleChanged' = FALSE
    /\ SurfaceInvalidateAll
    /\ zoomLast' = ZoomStep("timer")
    /\ UNCHANGED lastScaleFactor

\* CanvasViewport fields after construction
ZoomRest ==
    /\ scaleChanged = FALSE
    /\ lastScaleFactor = Int2Rat(-1)
    /\ isZooming = FALSE
    /\ resizeTimer = FALSE
    /\ zoomLast = [op |-> "ctor", scaleChanged |-> FALSE]

----------------------------------------------------------------------------
(* GUIObject: value synchronisation                                        *)

MaxQueue == 2
MaxAsync == 2

\* GUIObject::GUIObject: edited(false); the parameter pull is posted with
\* callAsync.  value, min and max are default-constructed (zero).
GuiInit(ranges) ==
    /\ alive = TRUE
    /\ edited = FALSE
    /\ value = Zero
    /\ \E r \in ranges : min = r[1] /\ max = r[2]
    /\ pdValue = Zero
    /\ pdQueue = <<>>
    /\ uiQueue = <<[kind |-> "params", v |-> Zero]>>
    /\ guiLast = [op |-> "ctor", arg |-> Zero]

\* pd->enqueueFunction / enqueueMessages / enqueueDirectMessages
Enqueue(q, item) == Append(q, item)

\* GUIObject::setValue
SetValueMsg(v) == [kind |-> "direct", v |-> v]

\* a bug: the clamp written for min < max only
ClampOriginalNoInverted(v, minimum, maximum) ==
    IF minimum # maximum \/ minimum # Zero \/ maximum # Zero
    THEN StdMax(StdMin(v, maximum), minimum)
    ELSE v

\* the clamp of GUIObject::setValueOriginal
ClampOriginal(v, minimum, maximum) ==
    IF minimum # maximum \/ minimum # Zero \/ maximum # Zero
    THEN IF RLess(minimum, maximum)
         THEN StdMax(StdMin(v, maximum), minimum)
         ELSE StdMax(StdMin(v, minimum), maximum)
    ELSE v

GetValueOriginal == value

SetValueOriginal(v) ==
    /\ alive
    /\ Len(pdQueue) < MaxQueue
    /\ value' = ClampOriginal(v, min, max)
    /\ pdQueue' = Enqueue(pdQueue, SetValueMsg(value'))
    /\ guiLast' = [op |-> "setValueOriginal", arg |-> v]
    /\ UNCHANGED <<alive, edited, min, max, pdValue, uiQueue>>

\* a bug: the scaled position is not clamped to [0,1]
ScaledToOriginalNoClamp(v, minimum, maximum) ==
    IF RLess(minimum, maximum)
    THEN RAdd(RMul(v, RSub(maximum, minimum)), minimum)
    ELSE RAdd(RMul(RSub(One, v), RSub(minimum, maximum)), maximum)

\* the mapping of GUIObject::setValueScaled
ScaledToOriginal(v, minimum, maximum) ==
    IF RLess(minimum, maximum)
    THEN RAdd(RMul(StdMax(StdMin(v, One), Zero), RSub(maximum, minimum)), minimum)
    ELSE RAdd(RMul(RSub(One, StdMax(StdMin(v, One), Zero)), RSub(minimum, maximum)), maximum)

\* GUIObject::getValueScaled
OriginalToScaled(v, minimum, maximum) ==
    IF RLess(minimum, maximum)
    THEN RDiv(RSub(v, minimum), RSub(maximum, minimum))
    ELSE LET q == RDiv(RSub(v, maximum), RSub(minimum, maximum))
         IN  IF q = NaN THEN NaN ELSE RSub(One, q)

GetValueScaled == OriginalToScaled(value, min, max)

SetValueScaled(v) ==
    /\ alive
    /\ Len(pdQueue) < MaxQueue
    /\ value' = ScaledToOriginal(v, min, max)
    /\ pdQueue' = Enqueue(pdQueue, SetValueMsg(value'))
    /\ guiLast' = [op |-> "setValueScaled", arg |-> v]
    /\ UNCHANGED <<alive, edited, min, max, pdValue, uiQueue>>

\* GUIObject::startEdition: edited = true; enqueueMessages("gui","mouse",1);
\* value = getValue()
StartEdition ==
    /\ alive
    /\ Len(pdQueue) < MaxQueue
    /\ edited' = TRUE
    /\ pdQueue' = Enqueue(pdQueue, [kind |-> "mouse", v |-> One])
    /\ value' = pdValue
    /\ guiLast' = [op |-> "startEdition", arg |-> Zero]
    /\ UNCHANGED <<alive, min, max, pdValue, uiQueue>>

\* a bug: stopEdition sends the mouse-up message and leaves the flag set
StopEditionLeavesEdited ==
    /\ alive
    /\ Len(pdQueue) < MaxQueue
    /\ pdQueue' = Enqueue(pdQueue, [kind |-> "mouse", v |-> Zero])
    /\ guiLast' = [op |-> "stopEdition", arg |-> Zero]
    /\ UNCHANGED <<alive, edited, value, min, max, pdValue, uiQueue>>

\* GUIObject::stopEdition
StopEdition ==
    /\ alive
    /\ Len(pdQueue) < MaxQueue
    /\ edited' = FALSE
    /\ pdQueue' = Enqueue(pdQueue, [kind |-> "mouse", v |-> Zero])
    /\ guiLast' = [op |-> "stopEdition", arg |-> Zero]
    /\ UNCHANGED <<alive, value, min, max, pdValue, uiQueue>>

\* a bug: updateValue without its edited gate
UpdateValueAlways == TRUE

\* the guard of GUIObject::updateValue
UpdateValueEnqueues == ~edited

\* GUIObject::updateValue: enqueueFunction(lambda) unless edited
UpdateValue ==
    /\ alive
    /\ Len(pdQueue) < MaxQueue
    /\ pdQueue' = IF UpdateValueEnqueues
                  THEN Enqueue(pdQueue, [kind |-> "fn", v |-> Zero])
                  ELSE pdQueue
    /\ guiLast' = [op |-> "updateValue", arg |-> Zero]
    /\ UNCHANGED <<alive, edited, value, min, max, pdValue, uiQueue>>

\* the lambda enqueued by updateValue, run on the interpreter context:
\* if (!_this) return; v = getValue(); if (value != v) callAsync(...)
PdRunFunction ==
    /\ pdQueue # <<>>
    /\ Head(pdQueue).kind = "fn"
    /\ Len(uiQueue) < MaxAsync
    /\ pdQueue' = Tail(pdQueue)
    /\ uiQueue' = IF alive /\ value # pdValue
                  THEN Append(uiQueue, [kind |-> "value", v |-> pdValue])
                  ELSE uiQueue
    /\ guiLast' = [op |-> "pdFunction", arg |-> pdValue]
    /\ UNCHANGED <<alive, edited, value, min, max, pdValue>>

\* the interpreter takes a message sent by setValue (the object's value
\* becomes the payload) or the "gui mouse" message (no value change)
PdRunMessage ==
    /\ pdQueue # <<>>
    /\ Head(pdQueue).kind \in {"direct", "mouse"}
    /\ pdQueue' = Tail(pdQueue)
    /\ pdValue' = IF Head(pdQueue).kind = "direct" THEN Head(pdQueue).v ELSE pdValue
    /\ guiLast' = [op |-> "pdMessage", arg |-> Head(pdQueue).v]
    /\ UNCHANGED <<alive, edited, value, min, max, uiQueue>>

\* the patch itself changes the object's value on the interpreter context
PdChange(v) ==
    /\ pdValue # v
    /\ pdValue' = v
    /\ guiLast' = [op |-> "pdChange", arg |-> v]
    /\ UNCHANGED <<alive, edited, value, min, max, pdQueue, uiQueue>>

\* what the deferred value callback writes:
\* if (_this) { _this->value = v; _this->update(); }
AsyncValueWrite(v) == IF alive THEN v ELSE value

\* a callAsync callback runs on the UI thread: the constructor's parameter
\* pull (updateParameters, no parameters in the base class) or the value
\* callback of updateValue
UiCallback ==
    /\ uiQueue # <<>>
    /\ uiQueue' = Tail(uiQueue)
    /\ value' = IF Head(uiQueue).kind = "value"
                THEN AsyncValueWrite(Head(uiQueue).v)
                ELSE value
    /\ guiLast' = [op |-> IF Head(uiQueue).kind = "value" THEN "asyncValue" ELSE "asyncParams",
                   arg |-> Head(uiQueue).v]
    /\ UNCHANGED <<alive, edited, min, max, pdValue, pdQueue>>

\* GUIObject::~GUIObject
Destroy ==
    /\ alive
    /\ alive' = FALSE
    /\ guiLast' = [op |-> "dtor", arg |-> Zero]
    /\ UNCHANGED <<edited, value, min, max, pdValue, pdQueue, uiQueue>>

EditValues == {Int2Rat(0), Int2Rat(1), Int2Rat(2)}

InitEdit == GuiInit({<<Zero, Zero>>}) /\ InvalRest /\ CacheRest /\ CreateRest /\ ZRest /\ LockRest /\ RegRest /\ ThreadRest /\ PathRest /\ RetRest /\ ZoomRest /\ OwnRest /\ EditLogRest /\ TypeRest /\ FrameRest /\ CloseRest

\* a GUIObject step leaves the other subsystems alone
GuiFrame == UNCHANGED <<invalVars, cacheVars, createVars, zVars, lockVars, regVars, threadVars, pathVars, retVars, zoomVars, ownVars, editLogVars, typeVars, frameVars, closeVars>>

NextEdit ==
    \/ StartEdition /\ GuiFrame
    \/ StopEdition /\ GuiFrame
    \/ UpdateValue /\ GuiFrame
    \/ \E v \in EditValues : SetValueOriginal(v) /\ GuiFrame
    \/ PdRunFunction /\ GuiFrame
    \/ PdRunMessage /\ GuiFrame
    \/ \E v \in EditValues : PdChange(v) /\ GuiFrame
    \/ UiCallback /\ GuiFrame
    \/ Destroy /\ GuiFrame

SpecEdit == InitEdit /\ [][NextEdit]_vars


\* C1: every updateValue() made while edited is true enqueues nothing on the
\* interpreter context (and posts no callback) and leaves the cached value
\* unchanged, whatever the interpreter-side value is.
C1_UpdateValueWhileEditedIsNoOp ==
    [][(edited /\ guiLast'.op = "updateValue")
          => (pdQueue' = pdQueue /\ uiQueue' = uiQueue /\ value' = value)]_vars

\* updateValue() was called during an edition while the interpreter-side
\* value differs from the cached one
C1_Witness == alive /\ edited /\ guiLast.op = "updateValue" /\ pdValue # value

\* C2: the cached value is never overwritten by an inbound interpreter update
\* (the deferred value callback) while edited is true.
C2_NoInboundWriteWhileEdited ==
    [][(edited /\ guiLast'.op = "asyncValue") => value' = value]_vars

----------------------------------------------------------------------------
(* setValueOriginal / setValueScaled over drawn ranges                     *)

ValueRanges ==
    { <<Zero, Zero>>, <<Zero, Int2Rat(2)>>, <<Int2Rat(2), Zero>>,
      <<Int2Rat(-1), Int2Rat(1)>>, <<Rat(3, 2), Rat(-1, 2)>>, <<One, One>> }

ValueInputs == { Int2Rat(-2), Zero, Rat(1, 2), One, Int2Rat(3) }

ScaledInputs == { Rat(-1, 2), Zero, Rat(1, 3), One, Rat(3, 2) }

InitValue == GuiInit(ValueRanges) /\ InvalRest /\ CacheRest /\ CreateRest /\ ZRest /\ LockRest /\ RegRest /\ ThreadRest /\ PathRest /\ RetRest /\ ZoomRest /\ OwnRest /\ EditLogRest /\ TypeRest /\ FrameRest /\ CloseRest

NextValue ==
    \/ \E v \in ValueInputs : SetValueOriginal(v) /\ GuiFrame
    \/ \E p \in ScaledInputs : SetValueScaled(p) /\ GuiFrame
    \/ PdRunMessage /\ GuiFrame

SpecValue == InitValue /\ [][NextValue]_vars

\* v clamped to the closed interval spanned by a and b
ClampBetween(v, a, b) ==
    LET lo == IF RLess(a, b) THEN a ELSE b
        hi == IF RLess(a, b) THEN b ELSE a
    IN  IF RLess(v, lo) THEN lo ELSE IF RLess(hi, v) THEN hi ELSE v

\* C3: setValueOriginal(v) then getValueOriginal() returns v clamped to the
\* closed interval spanned by min and max when min # max (either order), and
\* v itself when min = max = 0.
C3_SetGetOriginal ==
    guiLast.op = "setValueOriginal" =>
        /\ (min # max => GetValueOriginal = ClampBetween(guiLast.arg, min, max))
        /\ (min = Zero /\ max = Zero => GetValueOriginal = guiLast.arg)

\* a value above an inverted range was clamped
C3_Witness ==
    /\ guiLast.op = "setValueOriginal"
    /\ RLess(max, min)
    /\ RLess(min, guiLast.arg)
    /\ GetValueOriginal = min

----------------------------------------------------------------------------
(* The dirty rectangle between two frames                                  *)

InitInval == GuiInit({<<Zero, Zero>>}) /\ InvalInit /\ CacheRest /\ CreateRest /\ ZRest /\ LockRest /\ RegRest /\ ThreadRest /\ PathRest /\ RetRest /\ ZoomRest /\ OwnRest /\ EditLogRest /\ TypeRest /\ FrameRest /\ CloseRest

\* an invalidation step leaves the other subsystems alone
InvalFrame == UNCHANGED <<guiVars, cacheVars, createVars, zVars, lockVars, regVars, threadVars, pathVars, retVars, zoomVars, ownVars, editLogVars, typeVars, frameVars, closeVars>>

NextInval ==
    \/ \E c \in Components, r \in InputRects : Invalidate(c, r) /\ InvalFrame
    \/ RenderFrame /\ InvalFrame

SpecInval == InitInval /\ [][NextInval]_vars

\* the bounding box of a set of non-empty rectangles, EmptyRect for none
RECURSIVE SetMin(_)
SetMin(S) == LET a == CHOOSE e \in S : TRUE
             IN  IF S = {a} THEN a ELSE Min2(a, SetMin(S \ {a}))
RECURSIVE SetMax(_)
SetMax(S) == LET a == CHOOSE e \in S : TRUE
             IN  IF S = {a} THEN a ELSE Max2(a, SetMax(S \ {a}))

BoundingBox(S) ==
    IF S = {} THEN EmptyRect
    ELSE LET x1 == SetMin({r.x : r \in S})
             y1 == SetMin({r.y : r \in S})
             x2 == SetMax({r.x + r.w : r \in S})
             y2 == SetMax({r.y + r.h : r \in S})
         IN  Rect(x1, y1, x2 - x1, y2 - y1)

\* the part of rect inside component c, given by its corners
Clipped(c, rect) ==
    LET x1 == Max2(rect.x, 0)
        y1 == Max2(rect.y, 0)
        x2 == Min2(rect.x + rect.w, CompGeom(c).w)
        y2 == Min2(rect.y + rect.h, CompGeom(c).h)
    IN  Rect(x1, y1, x2 - x1, y2 - y1)

\* the calls that reach the accumulator: a visible origin component and a
\* non-empty clipped rectangle
Reported == { k \in calls : visible[k[1]] /\ ~IsEmpty(Clipped(k[1], k[2])) }

\* C5 as stated: the accumulated dirty rectangle equals the bounding union of
\* all r, each clipped to its source component's bounds and mapped into
\* surface coordinates.
C5_DirtyEqualsUnionOfClipped ==
    invalidArea =
        BoundingBox({ GetLocalAreaContainer(k[1], Clipped(k[1], k[2])) : k \in Reported })

\* C5 amended: the accumulated dirty rectangle equals the bounding union of
\* all r, each clipped to its source component's bounds, grown by 2 on every
\* side and mapped into surface coordinates (smallest integer container);
\* calls from an invisible component or with an empty clipped rectangle add
\* nothing.  The state is a function of the set of calls, not their order.
C5_DirtyEqualsUnionOfExpanded ==
    invalidArea =
        BoundingBox({ GetLocalAreaContainer(k[1], Expanded(Clipped(k[1], k[2]), 2)) :
                        k \in Reported })

\* two reported calls, one of them cut by its component's bounds
C5_Witness ==
    /\ Cardinality(Reported) >= 2
    /\ \E k \in Reported : Clipped(k[1], k[2]) # k[2]
    /\ ~IsEmpty(invalidArea)

----------------------------------------------------------------------------
(* The needsUpdate life cycle of the render caches                         *)

InitImage == GuiInit({<<Zero, Zero>>}) /\ InvalRest /\ ImageInit /\ FramebufferRest /\ CreateRest /\ ZRest /\ LockRest /\ RegRest /\ ThreadRest /\ PathRest /\ RetRest /\ ZoomRest /\ OwnRest /\ EditLogRest /\ TypeRest /\ FrameRest /\ CloseRest
InitFramebuffer == GuiInit({<<Zero, Zero>>}) /\ InvalRest /\ ImageInit /\ FramebufferInit /\ CreateRest /\ ZRest /\ LockRest /\ RegRest /\ ThreadRest /\ PathRest /\ RetRest /\ ZoomRest /\ OwnRest /\ EditLogRest /\ TypeRest /\ FrameRest /\ CloseRest

\* a cache step leaves the other subsystems alone
CacheFrame == UNCHANGED <<guiVars, invalVars, createVars, zVars, lockVars, regVars, threadVars, pathVars, retVars, zoomVars, ownVars, editLogVars, typeVars, frameVars, closeVars>>

NextImage ==
    \/ \E c \in Contexts, w \in Sizes, h \in Sizes, f \in Formats :
          LoadJUCEImage(c, w, h, f) /\ CacheFrame
    \/ ImageSetDirty /\ CacheFrame
    \/ \E c \in Contexts : ImageClearAll(c) /\ CacheFrame

NextFramebuffer ==
    \/ \E c \in Contexts, w \in Sizes, h \in Sizes : RenderToFramebuffer(c, w, h) /\ CacheFrame
    \/ FramebufferSetDirty /\ CacheFrame
    \/ \E c \in Contexts : FramebufferClearAll(c) /\ CacheFrame

\* the image and the framebuffer are independent objects: one specification
\* for each
SpecImage == InitImage /\ [][NextImage]_vars
SpecFramebuffer == InitFramebuffer /\ [][NextFramebuffer]_vars

\* C6: for an NVGImage and for an NVGFramebuffer, needsUpdate(w,h) is true
\* before the first create, false right after a successful create when asked
\* with the created size, and true after setDirty() or for a different size.
C6_NeedsUpdateLifeCycle ==
    /\ ~cacheLast.imgLoaded => \A w \in Sizes, h \in Sizes : ImageNeedsUpdate(w, h)
    /\ ~cacheLast.fbRendered => \A w \in Sizes, h \in Sizes : FramebufferNeedsUpdate(w, h)
    /\ cacheLast.op = "loadJUCEImage" => ~ImageNeedsUpdate(cacheLast.w, cacheLast.h)
    /\ (cacheLast.op = "renderToFramebuffer" /\ fbo.fb # 0)
          => ~FramebufferNeedsUpdate(cacheLast.w, cacheLast.h)
    /\ cacheLast.op = "imageSetDirty" => \A w \in Sizes, h \in Sizes : ImageNeedsUpdate(w, h)
    /\ cacheLast.op = "framebufferSetDirty"
          => \A w \in Sizes, h \in Sizes : FramebufferNeedsUpdate(w, h)
    /\ \A w \in Sizes, h \in Sizes :
          /\ (cacheLast.imgLoaded /\ <<w, h>> # <<img.totalWidth, img.totalHeight>>)
                => ImageNeedsUpdate(w, h)
          /\ (cacheLast.fbRendered /\ <<w, h>> # <<fbo.fbWidth, fbo.fbHeight>>)
                => FramebufferNeedsUpdate(w, h)

----------------------------------------------------------------------------
(* The classification of createGui                                         *)

InitCreate == GuiInit({<<Zero, Zero>>}) /\ InvalRest /\ CacheRest /\ CreateInit /\ ZRest /\ LockRest /\ RegRest /\ ThreadRest /\ PathRest /\ RetRest /\ ZoomRest /\ OwnRest /\ EditLogRest /\ TypeRest /\ FrameRest /\ CloseRest

\* a createGui call leaves the other subsystems alone
CreateFrame == UNCHANGED <<guiVars, invalVars, cacheVars, zVars, lockVars, regVars, threadVars, pathVars, retVars, zoomVars, ownVars, editLogVars, typeVars, frameVars, closeVars>>

NextCreate ==
    \/ CallCreateGui /\ CreateFrame

SpecCreate == InitCreate /\ [][NextCreate]_vars

\* C7: "tgl" gives a ToggleObject, "bng" a BangObject, "text" a TextObject
\* when te_type is T_OBJECT and a CommentObject otherwise, "gatom" a
\* FloatAtomObject, SymbolAtomObject or ListObject for flavor A_FLOAT,
\* A_SYMBOL or A_NULL.
C7_ScenarioMapping ==
    gui # NoWidget =>
        /\ obj.name = "tgl" => gui.cls = "ToggleObject"
        /\ obj.name = "bng" => gui.cls = "BangObject"
        /\ (obj.name = "text" /\ obj.te_type = "T_OBJECT") => gui.cls = "TextObject"
        /\ (obj.name = "text" /\ obj.te_type # "T_OBJECT") => gui.cls = "CommentObject"
        /\ (obj.name = "gatom" /\ obj.a_flavor = "A_FLOAT") => gui.cls = "FloatAtomObject"
        /\ (obj.name = "gatom" /\ obj.a_flavor = "A_SYMBOL") => gui.cls = "SymbolAtomObject"
        /\ (obj.name = "gatom" /\ obj.a_flavor = "A_NULL") => gui.cls = "ListObject"

\* a "text" that is no T_OBJECT became a comment
C7_Witness == obj.name = "text" /\ obj.te_type = "T_TEXT" /\ gui.cls = "CommentObject"

\* the sub-kind fields createGui may inspect for a class name
SubKindFields(name) ==
    IF name = "text" THEN {"te_type"}
    ELSE IF name = "gatom" THEN {"a_flavor"}
    ELSE IF name \in {"canvas", "graph"} THEN {"glHead", "gl_isgraph"}
    ELSE IF name = "scalar" THEN {"isScalarClass"}
    ELSE IF name = "message" THEN {"isTextObject", "patchable"}
    ELSE IF name \notin MappedNames THEN {"patchable"}
    ELSE {}

\* the object with o's class name and sub-kind tag and every other field
\* set to a fixed value: two objects of one class name and sub-kind tag have
\* the same canonical object
Canonical(o) ==
    [ f \in DOMAIN o |->
        IF f = "name" \/ f \in SubKindFields(o.name) THEN o[f] ELSE DefaultObject[f] ]

\* C8: createGui is a function of the class name and, for the ambiguous
\* classes, the sub-kind tag: every object with the class name and sub-kind
\* tag of obj gets the widget obj got, whatever the rest of its state.
C8_Deterministic ==
    gui # NoWidget => gui = CreateGui(Canonical(obj))

\* a message box was classified while its uninspected fields differ from
\* the canonical ones
C8_Witness ==
    /\ gui.cls = "MessageObject"
    /\ obj.te_type = "T_OBJECT"
    /\ obj.te_xpix = 1
    /\ Canonical(obj) # obj

\* the objects for which no branch of createGui names a specific widget: a
\* class name outside the table, a "message" that is no text object, a
\* "gatom" of another flavor, a "scalar" of another class
FallsBack(o) ==
    \/ o.name \notin MappedNames
    \/ o.name = "message" /\ ~o.isTextObject
    \/ o.name = "gatom" /\ o.a_flavor \notin {"A_FLOAT", "A_SYMBOL", "A_NULL"}
    \/ o.name = "scalar" /\ ~o.isScalarClass

WidgetClasses ==
    { "BangObject", "ButtonObject", "SliderObject", "ToggleObject", "NumberObject",
      "NumboxTildeObject", "RadioObject", "CanvasObject", "VUMeterObject", "TextObject",
      "CommentObject", "CycloneCommentObject", "MessageObject", "MousePadObject",
      "MouseObject", "KeyboardObject", "PictureObject", "TextDefineObject",
      "FloatAtomObject", "SymbolAtomObject", "ListObject", "ArrayObject", "GraphOnParent",
      "SubpatchObject", "ArrayDefineObject", "CloneObject", "ScalarObject", "KeyObject",
      "OscopeObject", "ScopeObject", "FunctionObject", "CanvasActiveObject",
      "CanvasMouseObject", "CanvasVisibleObject", "CanvasZoomObject", "CanvasEditObject",
      "NonPatchable" }

\* C9: createGui returns a widget for every object, also for a "gatom" of an
\* unknown flavor and a "scalar" of another class; where no branch names a
\* specific widget, the widget is the generic TextObject when the object is
\* patchable and the invisible NonPatchable placeholder when it is not.
C9_Total ==
    /\ CreateGui(obj).cls \in WidgetClasses
    /\ gui # NoWidget =>
        /\ gui.cls \in WidgetClasses
        /\ (FallsBack(obj) /\ obj.patchable) => gui = Widget("TextObject")
        /\ (FallsBack(obj) /\ ~obj.patchable) => (gui.cls = "NonPatchable" /\ gui.hidesObject)

----------------------------------------------------------------------------
(* Z-order mutation of the display list                                    *)

InitZOrder == GuiInit({<<Zero, Zero>>}) /\ InvalRest /\ CacheRest /\ CreateRest /\ ZInit /\ LockRest /\ RegRest /\ ThreadRest /\ PathRest /\ RetRest /\ ZoomRest /\ OwnRest /\ EditLogRest /\ TypeRest /\ FrameRest /\ CloseRest

\* a z-order step leaves the other subsystems alone
ZFrame == UNCHANGED <<guiVars, invalVars, cacheVars, createVars, lockVars, regVars, threadVars, pathVars, retVars, zoomVars, ownVars, editLogVars, typeVars, frameVars, closeVars>>

NextZOrder ==
    \/ \E o \in Nodes : MoveToFront(o) /\ ZFrame
    \/ \E o \in Nodes : MoveToBack(o) /\ ZFrame

SpecZOrder == InitZOrder /\ [][NextZOrder]_vars

\* the sequence L with o removed and re-inserted at index idx (0-based)
Without(L, o) == SelectSeq(L, LAMBDA e : e # o)
Reinsert(L, o, idx) ==
    LET R == Without(L, o)
        k == Min2(idx, Len(R))
    IN  SubSeq(R, 1, k) \o <<o>> \o SubSeq(R, k + 1, Len(R))

\* C10: moveToFront() and moveToBack() leave the list reachable from gl_list
\* equal to the list before the call with the object removed and re-inserted
\* at the target index: every object still reachable exactly once, the other
\* objects in their order.
C10_ReorderKeepsList ==
    (zLast.op \in {"moveToFront", "moveToBack"} /\ InList(zLast.before, zLast.o))
        => DisplayList = Reinsert(zLast.before, zLast.o, zLast.idx)

\* C11: moveToFront() on an empty display list (idx < 0) and on the only
\* element of the list changes neither the head nor any link.
C11_MoveToFrontNoOp ==
    [][ \A o \in Nodes :
          (MoveToFront(o) /\ (DisplayList = <<>> \/ DisplayList = <<o>>))
              => UNCHANGED <<gl_list, g_next>> ]_vars

\* moveToFront was called on the only element of the list
C11_Witness ==
    /\ zLast.op = "moveToFront"
    /\ zLast.before = <<zLast.o>>
    /\ DisplayList = <<zLast.o>>

----------------------------------------------------------------------------
(* Z-order mutation and the interpreter's lock                             *)

InitZLock == GuiInit({<<Zero, Zero>>}) /\ InvalRest /\ CacheRest /\ CreateRest /\ ZInit /\ LockRest /\ RegRest /\ ThreadRest /\ PathRest /\ RetRest /\ ZoomRest /\ OwnRest /\ EditLogRest /\ TypeRest /\ FrameRest /\ CloseRest

ZLockFrame == UNCHANGED <<guiVars, invalVars, cacheVars, createVars, regVars, threadVars, pathVars, retVars, zoomVars, ownVars, editLogVars, typeVars, frameVars, closeVars>>

NextZLock ==
    \/ \E o \in Nodes, front \in BOOLEAN : BeginMove(o, front) /\ ZLockFrame
    \/ FinishMove /\ ZLockFrame
    \/ PdLock /\ ZLockFrame
    \/ PdWalk /\ ZLockFrame
    \/ PdUnlock /\ ZLockFrame

SpecZLock == InitZLock /\ [][NextZLock]_vars

\* the step-by-step changePos leaves the links the one-step ChangePos leaves
SplitAgreesWithChangePos ==
    \A o \in Wrapped, pos \in {FrontIndex, IsInfoParent(gl_list)} :
        (zMove.phase = "idle" /\ pos >= 0 /\ Relinks(o, pos)) =>
            RelinkLinks(UnlinkLinks(gl_list, g_next, o), UnlinkRoot(gl_list, g_next, o), o, pos)
                = ChangePos(gl_list, g_next, o, pos)

\* C12: every g_next write of moveToFront() / moveToBack() happens while the
\* UI thread holds the interpreter's lock, so no interpreter step runs
\* between the unlink and the relink.
C12_ReorderUnderLock ==
    /\ zMove.phase = "unlinked" => sysLock = "ui"
    /\ ~pdSaw.midMove

----------------------------------------------------------------------------
(* One listener per interpreter pointer                                    *)

InitRegistry == GuiInit({<<Zero, Zero>>}) /\ InvalRest /\ CacheRest /\ CreateRest /\ ZRest /\ LockRest /\ RegRest /\ ThreadRest /\ PathRest /\ RetRest /\ ZoomRest /\ OwnRest /\ EditLogRest /\ TypeRest /\ FrameRest /\ CloseRest

RegFrame == UNCHANGED <<guiVars, invalVars, cacheVars, createVars, zVars, lockVars, threadVars, pathVars, retVars, zoomVars, ownVars, editLogVars, typeVars, frameVars, closeVars>>

NextRegistry ==
    \/ \E w \in WrapperIds, p \in Ptrs : Construct(w, p) /\ RegFrame
    \/ \E w \in WrapperIds : Destruct(w) /\ RegFrame

SpecRegistry == InitRegistry /\ [][NextRegistry]_vars

ListenersOf(p) == { w \in WrapperIds : <<p, w>> \in listeners }
WrappersOf(p) == { w \in live : wptr[w] = p }

\* C13: after any constructions and destructions every pointer has at most
\* one registered listener and at most one live GUIObject, and no destroyed
\* GUIObject is registered.
C13_OneListenerPerPointer ==
    /\ \A p \in Ptrs : Cardinality(ListenersOf(p)) <= 1 /\ Cardinality(WrappersOf(p)) <= 1
    /\ \A l \in listeners : l[2] \in live

----------------------------------------------------------------------------
(* GUIObject's steps by thread: the UI thread and the interpreter context  *)

\* an access of the running step: the thread, what it touches (the
\* interpreter-side value, the widget's cached value, another member of the
\* widget), how, and whether the widget is alive at that moment
Acc(thread, what, mode) == [thread |-> thread, what |-> what, mode |-> mode, alive |-> alive]

\* startEdition: edited = true; value = getValue() on the calling thread
T_StartEdition ==
    /\ StartEdition
    /\ lastAccess' = {Acc("ui", "widget", "write"), Acc("ui", "pdValue", "read"),
                      Acc("ui", "value", "write")}
    /\ UNCHANGED pdPc

T_StopEdition ==
    /\ StopEdition
    /\ lastAccess' = {Acc("ui", "widget", "write")}
    /\ UNCHANGED pdPc

T_UpdateValue ==
    /\ UpdateValue
    /\ lastAccess' = {Acc("ui", "widget", "read")}
    /\ UNCHANGED pdPc

T_SetValueOriginal(v) ==
    /\ SetValueOriginal(v)
    /\ lastAccess' = {Acc("ui", "widget", "read"), Acc("ui", "value", "write")}
    /\ UNCHANGED pdPc

T_SetValueScaled(v) ==
    /\ SetValueScaled(v)
    /\ lastAccess' = {Acc("ui", "widget", "read"), Acc("ui", "value", "write")}
    /\ UNCHANGED pdPc

\* the lambda of updateValue on the interpreter context, first statement:
\* if (!_this) return;
LambdaCheck ==
    /\ pdPc = "idle"
    /\ pdQueue # <<>>
    /\ Head(pdQueue).kind = "fn"
    /\ IF alive
       THEN pdPc' = "checked" /\ UNCHANGED pdQueue
       ELSE pdPc' = "idle" /\ pdQueue' = Tail(pdQueue)
    /\ lastAccess' = {}
    /\ guiLast' = [op |-> "pdCheck", arg |-> Zero]
    /\ UNCHANGED <<alive, edited, value, min, max, pdValue, uiQueue>>

\* the rest of the lambda: v = _this->getValue(); if (_this->value != v)
\* callAsync(...).  When the widget was destroyed since the check, the reads
\* go to a deleted object: any value may be seen.
LambdaBody ==
    /\ pdPc = "checked"
    /\ Len(uiQueue) < MaxAsync
    /\ pdPc' = "idle"
    /\ pdQueue' = Tail(pdQueue)
    /\ IF alive
       THEN uiQueue' = IF value # pdValue
                       THEN Append(uiQueue, [kind |-> "value", v |-> pdValue])
                       ELSE uiQueue
       ELSE \/ uiQueue' = uiQueue
            \/ \E v \in EditValues : uiQueue' = Append(uiQueue, [kind |-> "value", v |-> v])
    /\ lastAccess' = {Acc("pd", "widget", "read"), Acc("pd", "pdValue", "read"),
                      Acc("pd", "value", "read")}
    /\ guiLast' = [op |-> "pdFunction", arg |-> pdValue]
    /\ UNCHANGED <<alive, edited, value, min, max, pdValue>>

T_PdRunMessage ==
    /\ PdRunMessage
    /\ lastAccess' = {Acc("pd", "pdValue", "write")}
    /\ UNCHANGED pdPc

T_PdChange(v) ==
    /\ pdPc = "idle"
    /\ PdChange(v)
    /\ lastAccess' = {Acc("pd", "pdValue", "write")}
    /\ UNCHANGED pdPc

\* a callAsync callback on the UI thread: if (_this) { ... }
T_UiCallback ==
    /\ UiCallback
    /\ lastAccess' = IF ~alive THEN {}
                     ELSE IF Head(uiQueue).kind = "value"
                          THEN {Acc("ui", "value", "write"), Acc("ui", "widget", "read")}
                          ELSE {Acc("ui", "widget", "write")}
    /\ UNCHANGED pdPc

T_Destroy ==
    /\ Destroy
    /\ lastAccess' = {Acc("ui", "widget", "write")}
    /\ UNCHANGED pdPc

InitThreads == GuiInit({<<Zero, Zero>>}) /\ InvalRest /\ CacheRest /\ CreateRest /\ ZRest /\ LockRest /\ RegRest /\ ThreadRest /\ PathRest /\ RetRest /\ ZoomRest /\ OwnRest /\ EditLogRest /\ TypeRest /\ FrameRest /\ CloseRest

ThreadFrame == UNCHANGED <<invalVars, cacheVars, createVars, zVars, lockVars, regVars, pathVars, retVars, zoomVars, ownVars, editLogVars, typeVars, frameVars, closeVars>>

NextThreads ==
    \/ T_StartEdition /\ ThreadFrame
    \/ T_StopEdition /\ ThreadFrame
    \/ T_UpdateValue /\ ThreadFrame
    \/ \E v \in EditValues : T_SetValueOriginal(v) /\ ThreadFrame
    \/ \E v \in {Zero, One} : T_SetValueScaled(v) /\ ThreadFrame
    \/ LambdaCheck /\ ThreadFrame
    \/ LambdaBody /\ ThreadFrame
    \/ T_PdRunMessage /\ ThreadFrame
    \/ \E v \in EditValues : T_PdChange(v) /\ ThreadFrame
    \/ T_UiCallback /\ ThreadFrame
    \/ T_Destroy /\ ThreadFrame

SpecThreads == InitThreads /\ [][NextThreads]_vars

\* C14: no deferred callback reads or writes the GUIObject after it was
\* destroyed, whatever the interleaving of the destruction with the
\* callbacks.
C14_NoAccessAfterDestroy ==
    \A a \in lastAccess : a.what \in {"widget", "value"} => a.alive

\* C15: the interpreter-side value is read and written on the interpreter
\* context only, and the widget's cached value is written on the UI thread
\* only.
C15_ValueAccessByThread ==
    \A a \in lastAccess :
        /\ a.what = "pdValue" => a.thread = "pd"
        /\ (a.what = "value" /\ a.mode = "write") => a.thread = "ui"

----------------------------------------------------------------------------
(* Bulk invalidation and unrealized resources                              *)

InitGpu == GuiInit({<<Zero, Zero>>}) /\ InvalRest /\ ImageInit /\ FramebufferInit /\ CreateRest /\ ZRest /\ LockRest /\ RegRest /\ ThreadRest /\ PathInit /\ RetRest /\ ZoomRest /\ OwnRest /\ EditLogRest /\ TypeRest /\ FrameRest /\ CloseRest

GpuFrame == UNCHANGED <<guiVars, invalVars, createVars, zVars, lockVars, regVars, threadVars, retVars, zoomVars, ownVars, editLogVars, typeVars, frameVars, closeVars>>

\* the image and framebuffer steps leave the paths alone, the path steps
\* the image and the framebuffer
NextGpu ==
    \/ \E c \in Contexts : LoadJUCEImage(c, 1, 1, "ARGB") /\ UNCHANGED pathVars /\ GpuFrame
    \/ \E c \in Contexts : ImageClearAll(c) /\ UNCHANGED pathVars /\ GpuFrame
    \/ \E c \in Contexts : RenderToFramebuffer(c, 1, 1) /\ UNCHANGED pathVars /\ GpuFrame
    \/ \E c \in Contexts : FramebufferClearAll(c) /\ UNCHANGED pathVars /\ GpuFrame
    \/ \E i \in PathIds, c \in Contexts : PathSave(i, c) /\ UNCHANGED cacheVars /\ GpuFrame
    \/ \E i \in PathIds : PathClear(i) /\ UNCHANGED cacheVars /\ GpuFrame
    \/ \E c \in Contexts : PathClearAll(c) /\ UNCHANGED cacheVars /\ GpuFrame
    \/ PathResetAll /\ UNCHANGED cacheVars /\ GpuFrame
    \/ \E i \in PathIds : PathStroke(i) /\ UNCHANGED cacheVars /\ GpuFrame
    \/ \E i \in PathIds : PathFill(i) /\ UNCHANGED cacheVars /\ GpuFrame
    \/ FramebufferRender /\ UNCHANGED cacheVars /\ GpuFrame
    \/ FramebufferGetImage /\ UNCHANGED cacheVars /\ GpuFrame
    \/ ImageRender /\ UNCHANGED cacheVars /\ GpuFrame

SpecGpu == InitGpu /\ [][NextGpu]_vars

C18_UnrealizedNoOps ==
    [][ /\ \A i \in PathIds :
            /\ (PathStroke(i) /\ ~PathIsValid(i)) => (gpuLast'.ret = FALSE /\ gpuLast'.backend = <<>>)
            /\ (PathFill(i) /\ ~PathIsValid(i)) => (gpuLast'.ret = FALSE /\ gpuLast'.backend = <<>>)
            /\ (PathClear(i) /\ ~PathIsValid(i)) => (paths' = paths /\ gpuLast'.backend = <<>>)
        /\ (FramebufferRender /\ fbo.fb = 0) => gpuLast'.backend = <<>>
        /\ (FramebufferGetImage /\ fbo.fb = 0) => gpuLast'.ret = -1
        /\ (ImageRender /\ ~ImageIsValid) => gpuLast'.backend = <<>> ]_vars

\* stroke() was called on a path that had been saved and cleared again
C18_Witness ==
    /\ gpuLast.op = "stroke"
    /\ gpuLast.ret = FALSE
    /\ gpuLast.backend = <<>>
    /\ paths[gpuLast.arg] = NewPath

----------------------------------------------------------------------------
(* The return value of the invalidation listener                           *)

InitInvalRet == GuiInit({<<Zero, Zero>>}) /\ InvalInit /\ CacheRest /\ CreateRest /\ ZRest /\ LockRest /\ RegRest /\ ThreadRest /\ PathRest /\ RetInit /\ ZoomRest /\ OwnRest /\ EditLogRest /\ TypeRest /\ FrameRest /\ CloseRest

InvalRetFrame == UNCHANGED <<guiVars, cacheVars, createVars, zVars, lockVars, regVars, threadVars, pathVars, zoomVars, ownVars, editLogVars, typeVars, frameVars, closeVars>>

NextInvalRet ==
    \/ \E c \in Components, r \in InputRects : InvalidateRet(c, r) /\ InvalRetFrame
    \/ \E c \in Components : InvalidateAll(c) /\ InvalRetFrame
    \/ \E b \in BOOLEAN : SetRenderThroughImage(b) /\ InvalRetFrame
    \/ RenderFrame /\ UNCHANGED retVars /\ InvalRetFrame

SpecInvalRet == InitInvalRet /\ [][NextInvalRet]_vars

\* C17: invalidate(rect) and invalidateAll() return true exactly when the
\* surface renders through an image or the listener passes repaint events,
\* whatever the rectangle and the visibility of the origin component.
C17_ReturnValue ==
    invalRet.op \in {"invalidate", "invalidateAll"} =>
        (invalRet.ret <=> (renderThroughImage \/ passEvents[invalRet.c]))

\* a listener that passes events returned true for an invisible component
\* while the surface does not render through an image
C17_Witness ==
    /\ invalRet.op = "invalidate"
    /\ invalRet.ret
    /\ ~renderThroughImage
    /\ ~visible[invalRet.c]

----------------------------------------------------------------------------
(* The tiles of an image                                                   *)

InitTiles == GuiInit({<<Zero, Zero>>}) /\ InvalRest /\ ImageInit /\ FramebufferRest /\ CreateRest /\ ZRest /\ LockRest /\ RegRest /\ ThreadRest /\ PathInit /\ RetRest /\ ZoomRest /\ OwnRest /\ EditLogRest /\ TypeRest /\ FrameRest /\ CloseRest

TilesFrame == UNCHANGED <<guiVars, invalVars, createVars, zVars, lockVars, regVars, threadVars, retVars, zoomVars, ownVars, editLogVars, typeVars, frameVars, closeVars>>

NextTiles ==
    \/ \E c \in Contexts, w \in Sizes, h \in Sizes, f \in Formats :
          LoadJUCEImage(c, w, h, f) /\ UNCHANGED pathVars /\ TilesFrame
    \/ ImageSetDirty /\ UNCHANGED pathVars /\ TilesFrame
    \/ \E c \in Contexts : ImageClearAll(c) /\ UNCHANGED pathVars /\ TilesFrame
    \/ ImageRender /\ UNCHANGED cacheVars /\ TilesFrame

SpecTiles == InitTiles /\ [][NextTiles]_vars

\* whether the pixel (x, y) lies in rectangle r
Contains(r, x, y) == r.x <= x /\ x < r.x + r.w /\ r.y <= y /\ y < r.y + r.h

\* the bounds of the sub-images of the image
SubBounds == [ i \in 1..Len(img.subImages) |-> img.subImages[i].bounds ]

\* C19: after loadJUCEImage of a W x H image with texture size limit L the
\* image has one sub-image (0,0,W,H) when W <= L and H <= L, and otherwise
\* ceil(W/L) * ceil(H/L) sub-images, each at most L wide and high, every
\* pixel of (0,0,W,H) in exactly one of them and none outside; render()
\* draws every sub-image.
C19_TilesCoverImage ==
    /\ cacheLast.op = "loadJUCEImage" =>
          LET W == cacheLast.w
              H == cacheLast.h
              L == TextureSizeLimit
          IN  IF W <= L /\ H <= L
              THEN SubBounds = <<Rect(0, 0, W, H)>>
              ELSE /\ Len(SubBounds) = CeilDiv(W, L) * CeilDiv(H, L)
                   /\ \A i \in 1..Len(SubBounds) :
                         /\ SubBounds[i].w \in 1..L /\ SubBounds[i].h \in 1..L
                         /\ SubBounds[i] = GetIntersection(SubBounds[i], Rect(0, 0, W, H))
                   /\ \A x \in 0..(W - 1), y \in 0..(H - 1) :
                         Cardinality({ i \in 1..Len(SubBounds) : Contains(SubBounds[i], x, y) }) = 1
    /\ gpuLast.op = "imageRender" => gpuLast.backend = SubBounds

----------------------------------------------------------------------------
(* Cached paths after a zoom                                               *)

InitZoom == GuiInit({<<Zero, Zero>>}) /\ InvalRest /\ CacheRest /\ CreateRest /\ ZRest /\ LockRest /\ RegRest /\ ThreadRest /\ PathInit /\ RetRest /\ ZoomRest /\ OwnRest /\ EditLogRest /\ TypeRest /\ FrameRest /\ CloseRest

ZoomFrame == UNCHANGED <<guiVars, cacheVars, createVars, zVars, lockVars, regVars, threadVars, retVars, ownVars, editLogVars, typeVars, frameVars, closeVars>>

\* a step of the paths or of the renderer, seen from the viewport
Elsewhere(op) ==
    /\ zoomLast' = ZoomStep(op)
    /\ UNCHANGED <<scaleChanged, lastScaleFactor, isZooming, resizeTimer>>

NextZoom ==
    \/ \E f \in ScaleFactors, m \in BOOLEAN : Magnify(f, m) /\ UNCHANGED pathVars /\ ZoomFrame
    \/ VisibleAreaChanged /\ UNCHANGED pathVars /\ ZoomFrame
    \/ TimerCallback /\ ZoomFrame
    \/ \E i \in PathIds : PathSave(i, "ctxA") /\ Elsewhere("save") /\ UNCHANGED invalVars /\ ZoomFrame
    \/ RenderFrame /\ Elsewhere("render") /\ UNCHANGED pathVars /\ ZoomFrame

\* a running JUCE timer fires
SpecZoom == InitZoom /\ [][NextZoom]_vars /\ WF_vars(TimerCallback /\ ZoomFrame)

\* the state right after the resize timer fired
AfterResizeTimer ==
    zoomLast.op = "timer" =>
        /\ ~isZooming
        /\ ~scaleChanged
        /\ ~resizeTimer
        /\ invalidArea = SurfaceBounds
        /\ zoomLast.scaleChanged => (gpuLast.op = "resetAll" /\ \A i \in PathIds : ~PathIsValid(i))
        /\ ~zoomLast.scaleChanged => gpuLast.op # "resetAll"

\* C20: once magnify() has changed the scale and a visible-area change has
\* started the ResizeTimer, the timer fires, and when it has fired
\* NVGCachedPath::resetAll() was invoked, the whole surface is invalid,
\* isZooming is false and scaleChanged is cleared; the timer callback resets
\* no path when the scale did not change.
C20_ResetAfterZoom ==
    /\ []AfterResizeTimer
    /\ []((resizeTimer /\ scaleChanged) => isZooming)
    /\ (resizeTimer ~> zoomLast.op = "timer")

\* the timer fired after a zoom and reset a path that had been saved
C20_Witness ==
    /\ zoomLast.op = "timer"
    /\ zoomLast.scaleChanged
    /\ Len(gpuLast.backend) >= 1
    /\ lastScaleFactor = Int2Rat(2)

----------------------------------------------------------------------------
(* The registries of the render caches                                     *)

InitRegistries == GuiInit({<<Zero, Zero>>}) /\ InvalRest /\ CacheRest /\ CreateRest /\ ZRest /\ LockRest /\ RegRest /\ ThreadRest /\ PathRest /\ RetRest /\ ZoomRest /\ OwnRest /\ EditLogRest /\ TypeRest /\ FrameRest /\ CloseRest

OwnFrame == UNCHANGED <<guiVars, invalVars, cacheVars, createVars, zVars, lockVars, regVars, threadVars, pathVars, retVars, zoomVars, editLogVars, typeVars, frameVars, closeVars>>

NextRegistries ==
    \/ \E i \in ImageObjs : ImgConstruct(i) /\ OwnFrame
    \/ \E i \in ImageObjs : ImgConstructRendering(i, "ctxA", 1, 1, "ARGB") /\ OwnFrame
    \/ \E i \in ImageObjs, o \in ImageObjs : ImgCopyConstruct(i, o) /\ OwnFrame
    \/ \E i \in ImageObjs, o \in ImageObjs : ImgMoveAssign(i, o) /\ OwnFrame
    \/ \E i \in ImageObjs : ImgDestruct(i) /\ OwnFrame
    \/ \E f \in FbObjs : FbConstruct(f) /\ OwnFrame
    \/ \E f \in FbObjs, o \in FbObjs : FbCopyConstruct(f, o) /\ OwnFrame
    \/ \E f \in FbObjs : FbDestruct(f) /\ OwnFrame
    \/ \E q \in PathObjs : CpConstruct(q) /\ OwnFrame
    \/ \E q \in PathObjs, o \in PathObjs : CpCopyConstruct(q, o) /\ OwnFrame
    \/ \E q \in PathObjs : CpDestruct(q) /\ OwnFrame

SpecRegistries == InitRegistries /\ [][NextRegistries]_vars

LiveImages == { i \in ImageObjs : images[i].live }
LiveFbs == { f \in FbObjs : framebuffers[f].live }
LivePaths == { q \in PathObjs : cachedPaths[q].live }

\* C21: after any sequence of constructions, copies, move-assignments and
\* destructions, allImages, allFramebuffers and allCachedPaths hold exactly
\* the live NVGImage, NVGFramebuffer and NVGCachedPath objects.
C21_RegistriesHoldLiveObjects ==
    /\ allImages = LiveImages
    /\ allFramebuffers = LiveFbs
    /\ allCachedPaths = LivePaths

\* the registry of the images alone holds exactly the live images
RegistryOfImagesExact == allImages = LiveImages

----------------------------------------------------------------------------
(* An image and cached paths used with changing contexts                   *)

\* image widths: two small ones and one that is tiled; the height is 1
Widths == {1, TextureSizeLimit, TextureSizeLimit + 1}

NextContexts ==
    \/ ImgConstruct("imgA") /\ OwnFrame
    \/ \E c \in Contexts, w \in Widths : ImgLoad("imgA", c, w, 1, "ARGB") /\ OwnFrame
    \/ \E c \in Contexts : ImgClearAll(c) /\ OwnFrame
    \/ ImgDestruct("imgA") /\ OwnFrame

\* a cached path saved in changing contexts
NextPathContexts ==
    \/ \E q \in PathObjs : CpConstruct(q) /\ OwnFrame
    \/ \E q \in PathObjs, c \in Contexts : CpSave(q, c) /\ OwnFrame
    \/ \E q \in PathObjs : CpDestruct(q) /\ OwnFrame

SpecContexts == InitRegistries /\ [][NextContexts]_vars
SpecPathContexts == InitRegistries /\ [][NextPathContexts]_vars

\* the backend calls of the last operation
LastCalls == { ownLast.backend[k] : k \in 1..Len(ownLast.backend) }

\* C22: no nvgUpdateImage, nvgDeleteImage, nvgSavePath or nvgDeletePath call
\* passes an id that was created in one context together with another
\* context.
C22_IdsStayInTheirContext ==
    \A c \in LastCalls :
        (c.fn \in {"nvgUpdateImage", "nvgDeleteImage", "nvgSavePath", "nvgDeletePath"}
            /\ c.id \notin {0, NoCache})
        => c.origin = c.ctx

----------------------------------------------------------------------------
(* Ownership of the backend images                                         *)

NextImageOwn ==
    \/ \E i \in ImageObjs : ImgConstruct(i) /\ OwnFrame
    \/ \E i \in ImageObjs, c \in Contexts : ImgConstructRendering(i, c, 1, 1, "ARGB") /\ OwnFrame
    \/ \E i \in ImageObjs, o \in ImageObjs : ImgCopyConstruct(i, o) /\ OwnFrame
    \/ \E i \in ImageObjs, o \in ImageObjs : ImgMoveAssign(i, o) /\ OwnFrame
    \/ \E i \in ImageObjs, c \in Contexts, w \in {1, TextureSizeLimit + 1} :
          ImgLoad(i, c, w, 1, "ARGB") /\ OwnFrame
    \/ \E c \in Contexts : ImgClearAll(c) /\ OwnFrame
    \/ \E i \in ImageObjs : ImgDestruct(i) /\ OwnFrame

SpecImageOwn == InitRegistries /\ [][NextImageOwn]_vars

\* the ids a live image hands to the backend: its context and its ids
Uses(i) == { <<images[i].nvg, images[i].subImages[k].imageId>> : k \in 1..Len(images[i].subImages) }
              \ { <<c, 0>> : c \in Contexts \cup {NullCtx} }

\* C28: no backend image id is held by two live wrappers at once, and no id
\* is passed to nvgDeleteImage or nvgDeleteFramebuffer twice (every delete is
\* of a resource the backend still has); likewise for framebuffers.
C28_ExclusiveOwnership ==
    /\ \A i \in LiveImages, j \in LiveImages : i # j => Uses(i) \cap Uses(j) = {}
    /\ \A f \in LiveFbs, g \in LiveFbs :
          (f # g /\ framebuffers[f].fb # 0) => framebuffers[f].fb # framebuffers[g].fb
    /\ \A c \in LastCalls : c.fn \in {"nvgDeleteImage", "nvgDeleteFramebuffer"} => c.known

\* C29: every backend image id created and not yet deleted is held in the
\* subImages of some live NVGImage.
C29_NoOrphanedTexture ==
    \A t \in gpuImages : \E i \in LiveImages : t \in Held(images[i])

----------------------------------------------------------------------------
(* The dirty rectangle handed to the renderer                              *)

\* C23 as stated: getInvalidArea() returns the dirty rectangle expanded by
\* cnvMargin: the returned rectangle contains the accumulated dirty rectangle
\* and is empty only when nothing was invalidated.
C23_InvalidAreaContainsDirty ==
    /\ ~IsEmpty(invalidArea) => ContainsRect(GetInvalidArea, invalidArea)
    /\ IsEmpty(GetInvalidArea) => IsEmpty(invalidArea)

\* C23 amended: getInvalidArea() returns the accumulated dirty rectangle
\* moved by cnvMargin to the left and upwards, with its size unchanged; it is
\* empty exactly when the dirty rectangle is.
C23_InvalidAreaTranslated ==
    /\ GetInvalidArea.x = invalidArea.x - cnvMargin
    /\ GetInvalidArea.y = invalidArea.y - cnvMargin
    /\ GetInvalidArea.w = invalidArea.w
    /\ GetInvalidArea.h = invalidArea.h
    /\ IsEmpty(GetInvalidArea) <=> IsEmpty(invalidArea)

\* two calls have accumulated a dirty rectangle that is not empty
C23_Witness ==
    /\ Cardinality(Reported) = 2
    /\ ~IsEmpty(invalidArea)
    /\ ~IsEmpty(GetInvalidArea)

\* C24: invalidateAll() on a visible origin component makes the component's
\* bounds, in the coordinate space of the surface, part of the dirty
\* rectangle; on an invisible component invalidateAll() and invalidate(rect)
\* leave the dirty rectangle as it is, and so does invalidate(rect) with a
\* rect outside the component's bounds.
C24_InvalidateAllDirtiesBounds ==
    [][ \A c \in Components :
          /\ (InvalidateAll(c) /\ visible[c])
                => ContainsRect(invalidArea', GetLocalAreaContainer(c, GetLocalBounds(c)))
          /\ (InvalidateAll(c) /\ ~visible[c]) => invalidArea' = invalidArea
          /\ \A r \in InputRects :
                (InvalidateRet(c, r)
                    /\ (~visible[c] \/ IsEmpty(GetIntersection(r, GetLocalBounds(c)))))
                => invalidArea' = invalidArea ]_vars

\* the parts of C24 about calls that must change nothing
InvisibleOrOutsideChangesNothing ==
    [][ \A c \in Components :
          /\ (InvalidateAll(c) /\ ~visible[c]) => invalidArea' = invalidArea
          /\ \A r \in InputRects :
                (InvalidateRet(c, r)
                    /\ (~visible[c] \/ IsEmpty(GetIntersection(r, GetLocalBounds(c)))))
                => invalidArea' = invalidArea ]_vars

----------------------------------------------------------------------------
(* The edition gestures and their mouse messages                           *)

\* how many gestures a behaviour records
MaxGestures == 4

InitMouse == GuiInit({<<Zero, Zero>>}) /\ InvalRest /\ CacheRest /\ CreateRest /\ ZRest /\ LockRest /\ RegRest /\ ThreadRest /\ PathRest /\ RetRest /\ ZoomRest /\ OwnRest /\ EditLogRest /\ TypeRest /\ FrameRest /\ CloseRest

MouseFrame == UNCHANGED <<invalVars, cacheVars, createVars, zVars, lockVars, regVars, threadVars, pathVars, retVars, zoomVars, ownVars, typeVars, frameVars, closeVars>>

\* the messages a step has added to the outbound queue
Enqueued == SubSeq(pdQueue', Len(pdQueue) + 1, Len(pdQueue'))

\* a gesture is recorded with the mouse messages it enqueued
Gesture(name) ==
    /\ Len(editionCalls) < MaxGestures
    /\ editionCalls' = Append(editionCalls, name)
    /\ mouseSent' = mouseSent \o [ k \in 1..Len(Enqueued) |-> Enqueued[k].v ]

NextMouse ==
    \/ StartEdition /\ Gesture("startEdition") /\ MouseFrame
    \/ StopEdition /\ Gesture("stopEdition") /\ MouseFrame
    \/ PdRunMessage /\ UNCHANGED editLogVars /\ MouseFrame
    \/ \E v \in EditValues : PdChange(v) /\ UNCHANGED editLogVars /\ MouseFrame

SpecMouse == InitMouse /\ [][NextMouse]_vars

\* the payload of the mouse message of a gesture
MouseOf(name) == IF name = "startEdition" THEN One ELSE Zero

\* the mouse messages still in the queue
MouseInFlight == [ k \in 1..Len(pdQueue) |-> pdQueue[k].v ]

\* C25: startEdition() sets edited and enqueues ("gui", "mouse", 1),
\* stopEdition() clears edited and enqueues ("gui", "mouse", 0); the mouse
\* messages go out one per call in call order, so an alternating sequence of
\* calls sends 1,0,1,0,..., and edited is true exactly after a mouse-down
\* that no mouse-up has followed.
C25_MouseMessagesFollowGestures ==
    /\ Len(mouseSent) = Len(editionCalls)
    /\ \A k \in 1..Len(editionCalls) : mouseSent[k] = MouseOf(editionCalls[k])
    /\ edited <=> (mouseSent # <<>> /\ mouseSent[Len(mouseSent)] = One)
    /\ MouseInFlight = SubSeq(mouseSent, Len(mouseSent) - Len(pdQueue) + 1, Len(mouseSent))

\* two full gestures: down, up, down, up, with the last two messages still
\* in the queue
C25_Witness ==
    /\ editionCalls = <<"startEdition", "stopEdition", "startEdition", "stopEdition">>
    /\ mouseSent = <<One, Zero, One, Zero>>
    /\ ~edited
    /\ Len(pdQueue) = 2

----------------------------------------------------------------------------
(* The locks of getType                                                    *)

InitType == GuiInit({<<Zero, Zero>>}) /\ InvalRest /\ CacheRest /\ CreateRest /\ ZRest /\ LockRest /\ RegRest /\ ThreadRest /\ PathRest /\ RetRest /\ ZoomRest /\ OwnRest /\ EditLogRest /\ TypeRest /\ FrameRest /\ CloseRest

TypeFrame == UNCHANGED <<guiVars, invalVars, cacheVars, createVars, zVars, lockVars, regVars, threadVars, pathVars, retVars, zoomVars, ownVars, editLogVars, frameVars, closeVars>>

NextType ==
    \/ GetType /\ TypeFrame
    \/ \E o \in TypePtrs : SetTypePtr(o) /\ TypeFrame

SpecType == InitType /\ [][NextType]_vars

\* C26: on every return path of getType() each lock it acquired has been
\* released exactly once when it returns, and it releases no lock that it
\* did not acquire.
C26_LocksBalanced ==
    typeLast.op = "getType" =>
        /\ typeLast.exit = typeLast.enter
        /\ typeLast.sys_unlock = typeLast.sys_lock

\* the callback lock alone: taken once and released once on every path
CallbackLockBalanced ==
    typeLast.op = "getType" => (typeLast.enter = 1 /\ typeLast.exit = 1)

----------------------------------------------------------------------------
(* Re-creation of the render caches over a sequence of frames              *)

InitFrames == GuiInit({<<Zero, Zero>>}) /\ InvalRest /\ ImageInit /\ FramebufferInit /\ CreateRest /\ ZRest /\ LockRest /\ RegRest /\ ThreadRest /\ PathRest /\ RetRest /\ ZoomRest /\ OwnRest /\ EditLogRest /\ TypeRest /\ FrameRest /\ CloseRest

FramesFrame == UNCHANGED <<guiVars, invalVars, createVars, zVars, lockVars, regVars, threadVars, pathVars, retVars, zoomVars, ownVars, editLogVars, typeVars, closeVars>>

\* the sizes a component is drawn at
FrameSizes == {1, TextureSizeLimit}

NextFrames ==
    \/ \E c \in Contexts, w \in FrameSizes : ImageFrame(c, w, 1) /\ FramesFrame
    \/ ImageSetDirty /\ Invalidated("image") /\ FramesFrame
    \/ \E c \in Contexts : ImageClearAll(c) /\ Invalidated("image") /\ FramesFrame
    \/ \E c \in Contexts, w \in FrameSizes : FramebufferFrame(c, w, 1) /\ FramesFrame
    \/ FramebufferSetDirty /\ Invalidated("framebuffer") /\ FramesFrame
    \/ \E c \in Contexts : FramebufferClearAll(c) /\ Invalidated("framebuffer") /\ FramesFrame

SpecFrames == InitFrames /\ [][NextFrames]_vars

\* C27: a frame re-creates a cache only after first use, a size change, a
\* setDirty() or a clearAll; after the re-creation needsUpdate with the same
\* size is false, and bind at an unchanged size makes no new framebuffer.
C27_RecreatedOnlyWithCause ==
    /\ frameLast.recreated => frameLast.cause
    /\ (frameLast.kind = "image" /\ frameLast.recreated)
          => ~ImageNeedsUpdate(frameLast.w, frameLast.h)
    /\ (frameLast.kind = "framebuffer" /\ frameLast.recreated /\ fbo.fb # 0)
          => ~FramebufferNeedsUpdate(frameLast.w, frameLast.h)
    /\ (frameLast.kind = "framebuffer" /\ frameLast.allocated) => frameLast.cause

\* the framebuffer half of C27
FramebufferRecreatedOnlyWithCause ==
    frameLast.kind = "framebuffer" =>
        /\ frameLast.recreated => frameLast.cause
        /\ (frameLast.recreated /\ fbo.fb # 0) => ~FramebufferNeedsUpdate(frameLast.w, frameLast.h)
        /\ frameLast.allocated => frameLast.cause

----------------------------------------------------------------------------
(* Closing the window                                                      *)

InitClose == GuiInit({<<Zero, Zero>>}) /\ InvalRest /\ CacheRest /\ CreateRest /\ ZRest /\ LockRest /\ RegRest /\ ThreadRest /\ PathRest /\ RetRest /\ ZoomRest /\ OwnRest /\ EditLogRest /\ TypeRest /\ FrameRest /\ CloseInit

CloseFrame == UNCHANGED <<guiVars, invalVars, cacheVars, createVars, zVars, lockVars, regVars, threadVars, pathVars, retVars, zoomVars, ownVars, editLogVars, typeVars, frameVars>>

NextClose ==
    \/ CloseAllPatches /\ CloseFrame
    \/ ShowSaveDialog /\ CloseFrame
    \/ \E r \in {0, 1, 2} : DialogResult(r) /\ CloseFrame
    \/ SaveProjectCallback /\ CloseFrame
    \/ DismissDialog /\ CloseFrame
    \/ \E k \in PatchIds : SelectTab(k) /\ CloseFrame
    \/ EditPatch /\ CloseFrame

\* the message thread runs what was posted to it
SpecClose == InitClose /\ [][NextClose]_vars /\ WF_vars(ShowSaveDialog /\ CloseFrame)

AnyDirty(ts) == \E k \in 1..Len(ts) : ts[k].dirty

\* a dirty patch was closed only on the answers 1 or 2, on 2 by the save's
\* callback; quit only without a current canvas; after the answer 0
\* everything is still open; a chain stops only by quitting or at a dirty
\* patch it asks about
ClosesOnlyOnAnswer ==
    /\ \A e \in closedLog : e.dirty => (e.asked /\ e.result \in {1, 2})
    /\ closeLast.op = "discard" =>
          \E e \in closedLog : e.patch = closeLast.asked /\ e.result = 1
    /\ closeLast.op = "saved" =>
          \E e \in closedLog : e.patch = closeLast.asked /\ e.result = 2
    /\ closePhase = "quit" => (tabs = <<>> /\ currentTab = 0)
    /\ closeLast.op = "cancel" =>
          (tabs = closeLast.tabs /\ closePhase = "idle"
              /\ closeLast.asked \in OpenPatches(tabs))
    /\ closeLast.op = "save" =>
          (tabs = closeLast.tabs /\ closePhase = "saving" /\ askedCnv \in OpenPatches(tabs))
    /\ closeLast.op \in {"closeAllPatches", "discard", "saved"} =>
          \/ closePhase = "quit"
          \/ closePhase = "posted" /\ \E k \in 1..Len(tabs) : tabs[k].patch = askedCnv /\ tabs[k].dirty

\* C30: closeAllPatches() closes a dirty patch only after the save dialog
\* returned 1, or 2 and saveProject's callback ran; on 0 the chain ends with
\* that patch and the remaining ones open and without quitting; quit() is
\* called only when no current canvas remains, and it is reached when no
\* open patch is dirty.
C30_NoSilentDiscard ==
    /\ []ClosesOnlyOnAnswer
    /\ [][(CloseAllPatches /\ ~AnyDirty(tabs)) => closePhase' = "quit"]_vars
    /\ [][(closePhase \in {"dialog", "saving"} /\ closeLast'.op \in {"discard", "saved"}
              /\ ~AnyDirty(tabs'))
             => closePhase' = "quit"]_vars
    /\ (closePhase = "posted" ~> closePhase = "dialog")

\* a clean patch was closed at once, a dirty one was asked about and
\* discarded, another saved, and the window quit
C30_Witness ==
    /\ closePhase = "quit"
    /\ \E e \in closedLog : e.dirty /\ e.result = 1
    /\ \E e \in closedLog : ~e.dirty /\ ~e.asked
    /\ \E e \in closedLog : e.dirty /\ e.result = 2

\* the answer 0 was given and the patches stayed open
C30_Cancelled ==
    /\ closeLast.op = "cancel"
    /\ tabs # <<>>

=============================================================================
